---- MODULE Spec2Model ----
(***************************************************************************)
(* A model of the static-analysis core of pr-review-agent:                 *)
(*   FileAnalyzerTool      (src/src/tools/file-analyzer.ts)                *)
(*   CodeMetricsTool       (src/src/tools/code-metrics.ts)                 *)
(*   SecurityScannerTool   (src/unnamed/part_001)                          *)
(*   SummaryAgentHelpers / SecurityHelpers (src/src/agents/summary.ts)     *)
(*                                                                         *)
(* JavaScript strings are TLA+ strings; a character is a string of length  *)
(* one, read with SubSeq(s, i, i).  JavaScript indices are 0-based, the    *)
(* positions used here are 1-based.                                        *)
(***************************************************************************)
EXTENDS Integers, Sequences, FiniteSets, TLC

(***************************************************************************)
(* String primitives: the String.prototype methods the code uses           *)
(***************************************************************************)
NL == "\n"

CharAt(s, i) == SubSeq(s, i, i)

LowerLetters == "abcdefghijklmnopqrstuvwxyz"
UpperLetters == "ABCDEFGHIJKLMNOPQRSTUVWXYZ"
DigitChars == "0123456789"

CharsOf(s) == { CharAt(s, i) : i \in 1..Len(s) }

LowerSet == CharsOf(LowerLetters)
UpperSet == CharsOf(UpperLetters)
DigitSet == CharsOf(DigitChars)
WordSet == LowerSet \cup UpperSet \cup DigitSet \cup {"_"}
SpaceSet == {" ", "\t", "\r", NL}

\* String.prototype.toLowerCase on one character
LowerChar(c) ==
    IF c \in UpperSet
    THEN CharAt(LowerLetters, CHOOSE i \in 1..Len(UpperLetters) : CharAt(UpperLetters, i) = c)
    ELSE c

RECURSIVE ToLowerCase(_)
ToLowerCase(s) ==
    IF s = "" THEN "" ELSE LowerChar(CharAt(s, 1)) \o ToLowerCase(Tail(s))

StartsWith(s, p) == Len(s) >= Len(p) /\ SubSeq(s, 1, Len(p)) = p

\* s.includes(sub)
Includes(s, sub) ==
    \E i \in 1..(Len(s) - Len(sub) + 1) : SubSeq(s, i, i + Len(sub) - 1) = sub

\* s.substring(1): the string without its first character
Substring1(s) == SubSeq(s, 2, Len(s))

RECURSIVE TrimStart(_)
TrimStart(s) ==
    IF s # "" /\ CharAt(s, 1) \in SpaceSet THEN TrimStart(Tail(s)) ELSE s

RECURSIVE TrimEnd(_)
TrimEnd(s) ==
    IF s # "" /\ CharAt(s, Len(s)) \in SpaceSet
    THEN TrimEnd(SubSeq(s, 1, Len(s) - 1))
    ELSE s

Trim(s) == TrimEnd(TrimStart(s))

\* s.split("\n"): never the empty array, "" splits into [""]
\* the pieces of s between the line breaks at the positions breaks
SplitAt(s, breaks) ==
    [k \in 1..(Len(breaks) + 1) |->
        SubSeq(s, IF k = 1 THEN 1 ELSE breaks[k - 1] + 1,
                  IF k = Len(breaks) + 1 THEN Len(s) ELSE breaks[k] - 1)]

SplitLines(s) == SplitAt(s, SelectSeq([i \in 1..Len(s) |-> i], LAMBDA i : CharAt(s, i) = NL))

\* lines.join("\n"): the empty array joins into ""
RECURSIVE JoinLines(_)
JoinLines(ls) ==
    IF ls = <<>> THEN ""
    ELSE IF Len(ls) = 1 THEN ls[1]
    ELSE ls[1] \o NL \o JoinLines(Tail(ls))

\* Number.parseInt on a string of decimal digits
DigitValue(c) == (CHOOSE i \in 1..Len(DigitChars) : CharAt(DigitChars, i) = c) - 1

RECURSIVE ParseDigits(_, _)
ParseDigits(s, acc) ==
    IF s = "" THEN acc ELSE ParseDigits(Tail(s), 10 * acc + DigitValue(CharAt(s, 1)))

ParseInt(s) == ParseDigits(s, 0)

\* Array.prototype.map
MapSeq(seq, F(_)) == [i \in 1..Len(seq) |-> F(seq[i])]

\* array.filter(test).length
CountIf(seq, Keep(_)) == Len(SelectSeq(seq, Keep))

RECURSIVE SumSeq(_)
SumSeq(seq) == IF seq = <<>> THEN 0 ELSE seq[1] + SumSeq(Tail(seq))

RECURSIVE Flatten(_)
Flatten(seqs) == IF seqs = <<>> THEN <<>> ELSE seqs[1] \o Flatten(Tail(seqs))

(***************************************************************************)
(* Regular expressions.  A pattern is a tree of nodes; Rx gives, for a     *)
(* start position, the matches of a node in the order a backtracking       *)
(* matcher tries them (greedy repetition first, alternatives left to       *)
(* right), each with its end position and its capture groups.  RegExp.test *)
(* is "some match exists" and String.match is the first match of the       *)
(* leftmost start position.  An unset capture group reads as "", which the *)
(* code cannot tell from undefined (it only reads group || default) .      *)
(***************************************************************************)
RNode(t, str, set, kids, n) == [t |-> t, s |-> str, set |-> set, kids |-> kids, n |-> n]

RLit(str) == RNode("lit", str, {}, <<>>, 0)
RSet(set) == RNode("set", "", set, <<>>, 0)
RNot(set) == RNode("not", "", set, <<>>, 0)
RSeq(kids) == RNode("seq", "", {}, kids, 0)
RAlt(kids) == RNode("alt", "", {}, kids, 0)
RStar(kid) == RNode("star", "", {}, <<kid>>, 0)
RGroup(n, kid) == RNode("group", "", {}, <<kid>>, n)
RNegLook(kid) == RNode("neglook", "", {}, <<kid>>, 0)
REmpty == RSeq(<<>>)
ROpt(kid) == RAlt(<<kid, REmpty>>)
RPlus(kid) == RSeq(<<kid, RStar(kid)>>)
\* kid{n,}
RAtLeast(kid, n) == RSeq([i \in 1..n |-> kid] \o <<RStar(kid)>>)
\* . (any character but a line terminator), \s, \d, \w
RAny == RNot({NL, "\r"})
RSpace == RSet(SpaceSet)
RDigit == RSet(DigitSet)
RWord == RSet(WordSet)

MaxGroups == 3
NoCaps == [g \in 1..MaxGroups |-> ""]

CharEq(a, b, ci) == IF ci THEN LowerChar(a) = LowerChar(b) ELSE a = b
CharIn(c, set, ci) == IF ci THEN \E x \in set : LowerChar(x) = LowerChar(c) ELSE c \in set

\* the character at position i of s is in the class re (a set or its complement)
ClassAt(re, s, i, ci) ==
    /\ i <= Len(s)
    /\ IF re.t = "set" THEN CharIn(CharAt(s, i), re.set, ci)
       ELSE ~CharIn(CharAt(s, i), re.set, ci)

LitAt(lit, s, i, ci) ==
    /\ i + Len(lit) - 1 <= Len(s)
    /\ \A k \in 1..Len(lit) : CharEq(CharAt(lit, k), CharAt(s, i + k - 1), ci)

RECURSIVE Rx(_, _, _, _, _)
RECURSIVE RxSeq(_, _, _, _, _, _)
RECURSIVE RxEach(_, _, _, _, _)

\* the matches of re at position i of s, in backtracking order
Rx(re, s, i, caps, ci) ==
    CASE re.t = "lit" ->
            IF LitAt(re.s, s, i, ci) THEN <<[i |-> i + Len(re.s), caps |-> caps]>> ELSE <<>>
      [] re.t \in {"set", "not"} ->
            IF ClassAt(re, s, i, ci) THEN <<[i |-> i + 1, caps |-> caps]>> ELSE <<>>
      [] re.t = "seq" -> RxSeq(re.kids, 1, s, i, caps, ci)
      [] re.t = "alt" ->
            Flatten([k \in 1..Len(re.kids) |-> Rx(re.kids[k], s, i, caps, ci)])
      [] re.t = "star" /\ re.kids[1].t \in {"set", "not"} ->
            \* a class repeated: the run of characters in the class, longest first
            LET run == CHOOSE k \in 0..(Len(s) - i + 1) :
                           /\ i + k > Len(s) \/ ~ClassAt(re.kids[1], s, i + k, ci)
                           /\ \A m \in 0..(k - 1) : ClassAt(re.kids[1], s, i + m, ci)
            IN  [n \in 1..(run + 1) |-> [i |-> i + run + 1 - n, caps |-> caps]]
      [] re.t = "star" /\ re.kids[1].t \notin {"set", "not"} ->
            LET once == SelectSeq(Rx(re.kids[1], s, i, caps, ci), LAMBDA m : m.i > i)
            IN  RxEach(re, s, once, 1, ci) \o <<[i |-> i, caps |-> caps]>>
      [] re.t = "group" ->
            LET inner == Rx(re.kids[1], s, i, caps, ci)
            IN  [k \in 1..Len(inner) |->
                    [i |-> inner[k].i,
                     caps |-> [inner[k].caps EXCEPT ![re.n] = SubSeq(s, i, inner[k].i - 1)]]]
      [] re.t = "neglook" ->
            IF Rx(re.kids[1], s, i, caps, ci) = <<>>
            THEN <<[i |-> i, caps |-> caps]>> ELSE <<>>

\* the matches of kids[k..] at position i
RxSeq(kids, k, s, i, caps, ci) ==
    IF k > Len(kids) THEN <<[i |-> i, caps |-> caps]>>
    ELSE LET first == Rx(kids[k], s, i, caps, ci)
         IN  Flatten([j \in 1..Len(first) |->
                        RxSeq(kids, k + 1, s, first[j].i, first[j].caps, ci)])

\* re continued from each of the matches ms[k..]
RxEach(re, s, ms, k, ci) ==
    IF k > Len(ms) THEN <<>>
    ELSE Rx(re, s, ms[k].i, ms[k].caps, ci) \o RxEach(re, s, ms, k + 1, ci)

\* the start positions at which the pattern matches, leftmost first
RxStarts(re, s, ci) == SelectSeq([i \in 1..(Len(s) + 1) |-> i],
                                 LAMBDA i : Rx(re, s, i, NoCaps, ci) # <<>>)

\* pattern.test(s)
RxTest(re, s, ci) == \E i \in 1..(Len(s) + 1) : Rx(re, s, i, NoCaps, ci) # <<>>

\* s.match(pattern): [matched, start, end (exclusive), caps]
NoMatch == [matched |-> FALSE, start |-> 0, end |-> 0, caps |-> NoCaps]
MatchFrom(start, m) == [matched |-> TRUE, start |-> start, end |-> m.i, caps |-> m.caps]
FirstMatch(re, s, ci, starts) ==
    IF starts = <<>> THEN NoMatch
    ELSE MatchFrom(starts[1], Head(Rx(re, s, starts[1], NoCaps, ci)))
RxMatch(re, s, ci) == FirstMatch(re, s, ci, RxStarts(re, s, ci))

(***************************************************************************)
(* JavaScript values as they arrive at run time.  FileChange is declared   *)
(* { filename: string, patch?: string, ... } but the tools never validate  *)
(* a record: a field may hold undefined or a value that is not a string,   *)
(* and a string method called on it raises a TypeError.                    *)
(***************************************************************************)
Str(s) == [t |-> "string", v |-> s]
Undefined == [t |-> "undefined", v |-> ""]
NotAString == [t |-> "object", v |-> ""]

IsString(x) == x.t = "string"
\* !x : undefined and "" are falsy, an object is truthy
Falsy(x) == x.t = "undefined" \/ (x.t = "string" /\ x.v = "")

\* the result of a call: a value, or an exception that left the call
Return(v) == [threw |-> FALSE, value |-> v]
Throw == [threw |-> TRUE, value |-> <<>>]

(***************************************************************************)
(* Language classification                                                 *)
(***************************************************************************)
\* filename.split(".").pop(): the text after the last ".", the whole name without one
RECURSIVE LastSegment(_, _)
LastSegment(s, cur) ==
    IF s = "" THEN cur
    ELSE IF CharAt(s, 1) = "." THEN LastSegment(Tail(s), "")
    ELSE LastSegment(Tail(s), cur \o CharAt(s, 1))

\* an object literal used as a map also answers for the keys it inherits
\* from Object.prototype; those values are objects, not language tags
InheritedKeys == {"constructor", "__proto__"}
NotATag == "[object]"

MapLookup(map, key) ==
    IF key \in DOMAIN map THEN map[key]
    ELSE IF key \in InheritedKeys THEN NotATag
    ELSE "unknown"

ScannerLanguageMap ==
    [k \in {"ts", "tsx", "js", "jsx", "py", "java", "php", "rb", "go", "cs"} |->
        CASE k \in {"ts", "tsx"} -> "typescript"
          [] k \in {"js", "jsx"} -> "javascript"
          [] k = "py" -> "python"
          [] k = "java" -> "java"
          [] k = "php" -> "php"
          [] k = "rb" -> "ruby"
          [] k = "go" -> "go"
          [] k = "cs" -> "csharp"]

\* SecurityScannerTool.getFileLanguage
getFileLanguage(name) == MapLookup(ScannerLanguageMap, ToLowerCase(LastSegment(name, "")))

(***************************************************************************)
(* SecurityScannerTool                                                     *)
(***************************************************************************)
\* the quote class of the patterns; the backquote, which a string of this module
\* cannot hold, is outside the alphabet of the modelled inputs
Quotes == {"'", "\""}
RQuote == RSet(Quotes)
RLits(strs) == RAlt([i \in 1..Len(strs) |-> RLit(strs[i])])
AlnumPlusSlash == LowerSet \cup UpperSet \cup DigitSet \cup {"+", "/"}
AllLanguages == {}

Rule(id, name, pattern, ci, severity, category, languages) ==
    [id |-> id, name |-> name, pattern |-> pattern, ci |-> ci, severity |-> severity,
     category |-> category, languages |-> languages]

\* (in the patterns quoted below, Q stands for the quote class)
SECURITY_RULES == <<
    \* /\$\{.*\}.*(?:SELECT|INSERT|UPDATE|DELETE|DROP|CREATE|ALTER)/i
    Rule("sql-injection-1", "SQL Injection Risk",
         RSeq(<<RLit("${"), RStar(RAny), RLit("}"), RStar(RAny),
                RLits(<<"SELECT", "INSERT", "UPDATE", "DELETE", "DROP", "CREATE", "ALTER">>)>>),
         TRUE, "critical", "injection", AllLanguages),
    \* /(?:query|sql)\s*[+]=?\s*[Q].*(?:SELECT|INSERT|UPDATE|DELETE)/i
    Rule("sql-injection-2", "Dynamic SQL Construction",
         RSeq(<<RLits(<<"query", "sql">>), RStar(RSpace), RLit("+"), ROpt(RLit("=")),
                RStar(RSpace), RQuote, RStar(RAny),
                RLits(<<"SELECT", "INSERT", "UPDATE", "DELETE">>)>>),
         TRUE, "high", "injection", AllLanguages),
    \* /innerHTML\s*=\s*(?![Q]static)/i
    Rule("xss-1", "Potential XSS",
         RSeq(<<RLit("innerHTML"), RStar(RSpace), RLit("="), RStar(RSpace),
                RNegLook(RSeq(<<RQuote, RLit("static")>>))>>),
         TRUE, "high", "injection", AllLanguages),
    \* /\.(?:outerHTML|insertAdjacentHTML)\s*\(/i
    Rule("xss-2", "Dangerous HTML Method",
         RSeq(<<RLit("."), RLits(<<"outerHTML", "insertAdjacentHTML">>), RStar(RSpace),
                RLit("(")>>),
         TRUE, "medium", "injection", AllLanguages),
    \* /(?:exec|system|shell_exec|passthru|eval)\s*\(\s*(?:\$|.*input|.*request)/i
    Rule("command-injection-1", "Command Injection Risk",
         RSeq(<<RLits(<<"exec", "system", "shell_exec", "passthru", "eval">>), RStar(RSpace),
                RLit("("), RStar(RSpace),
                RAlt(<<RLit("$"), RSeq(<<RStar(RAny), RLit("input")>>),
                       RSeq(<<RStar(RAny), RLit("request")>>)>>)>>),
         TRUE, "critical", "injection", AllLanguages),
    \* /(?:password|passwd|pwd)\s*[:=]\s*[Q][^Q\s]{8,}/i
    Rule("hardcoded-password-1", "Hardcoded Password",
         RSeq(<<RLits(<<"password", "passwd", "pwd">>), RStar(RSpace), RSet({":", "="}),
                RStar(RSpace), RQuote, RAtLeast(RNot(Quotes \cup SpaceSet), 8)>>),
         TRUE, "critical", "sensitive-data", AllLanguages),
    \* /(?:api[_-]?key|secret[_-]?key|access[_-]?token)\s*[:=]\s*[Q][a-zA-Z0-9+/]{20,}/i
    Rule("hardcoded-key-1", "Hardcoded API Key",
         RSeq(<<RAlt(<<RSeq(<<RLit("api"), ROpt(RSet({"_", "-"})), RLit("key")>>),
                       RSeq(<<RLit("secret"), ROpt(RSet({"_", "-"})), RLit("key")>>),
                       RSeq(<<RLit("access"), ROpt(RSet({"_", "-"})), RLit("token")>>)>>),
                RStar(RSpace), RSet({":", "="}), RStar(RSpace), RQuote,
                RAtLeast(RSet(AlnumPlusSlash), 20)>>),
         TRUE, "critical", "sensitive-data", AllLanguages),
    \* /(?:md5|sha1)\s*\(/i
    Rule("weak-crypto-1", "Weak Hash Algorithm",
         RSeq(<<RLits(<<"md5", "sha1">>), RStar(RSpace), RLit("(")>>),
         TRUE, "medium", "cryptography", AllLanguages),
    \* /Math\.random\(\)/i, languages: javascript, typescript
    Rule("weak-crypto-2", "Insecure Random",
         RLit("Math.random()"),
         TRUE, "medium", "cryptography", {"javascript", "typescript"}),
    \* /(?:readFile|writeFile|createReadStream|createWriteStream)\s*\([^)]*\.\.\/[^)]*\)/i
    Rule("path-traversal-1", "Path Traversal Risk",
         RSeq(<<RLits(<<"readFile", "writeFile", "createReadStream", "createWriteStream">>),
                RStar(RSpace), RLit("("), RStar(RNot({")"})), RLit("../"),
                RStar(RNot({")"})), RLit(")")>>),
         TRUE, "high", "injection", AllLanguages),
    \* /console\.(?:log|info|warn|error)\s*\([^)]*(?:password|token|key|secret)/i
    Rule("debug-info-1", "Debug Information Exposure",
         RSeq(<<RLit("console."), RLits(<<"log", "info", "warn", "error">>), RStar(RSpace),
                RLit("("), RStar(RNot({")"})),
                RLits(<<"password", "token", "key", "secret">>)>>),
         TRUE, "medium", "sensitive-data", AllLanguages),
    \* /[Q]http:\/\/(?!(?:localhost|127\.0\.0\.1|0\.0\.0\.0))/i
    Rule("insecure-protocol-1", "Insecure HTTP",
         RSeq(<<RQuote, RLit("http://"),
                RNegLook(RLits(<<"localhost", "127.0.0.1", "0.0.0.0">>))>>),
         TRUE, "medium", "configuration", AllLanguages),
    \* /[Q]\*[Q]/
    Rule("cors-wildcard-1", "CORS Wildcard",
         RSeq(<<RQuote, RLit("*"), RQuote>>),
         FALSE, "medium", "configuration", AllLanguages),
    \* /(?:httpOnly|secure|sameSite)\s*:\s*false/i
    Rule("weak-session-1", "Weak Session Configuration",
         RSeq(<<RLits(<<"httpOnly", "secure", "sameSite">>), RStar(RSpace), RLit(":"),
                RStar(RSpace), RLit("false")>>),
         TRUE, "medium", "authentication", AllLanguages),
    \* /\$where.*\$\{.*\}/i
    Rule("nosql-injection-1", "NoSQL Injection Risk",
         RSeq(<<RLit("$where"), RStar(RAny), RLit("${"), RStar(RAny), RLit("}")>>),
         TRUE, "high", "injection", AllLanguages)
>>

Severities == <<"critical", "high", "medium", "low">>

\* rule.languages && !rule.languages.includes(language): the rule is skipped
RuleApplies(rule, language) == rule.languages = AllLanguages \/ language \in rule.languages

\* rule.pattern.test(line)
PatternTest(rule, line) == RxTest(rule.pattern, line, rule.ci)

\* the findings of one line, one per matching rule, in catalog order
IssueOf(rule, evidence, lineNumber, filename) ==
    [severity |-> rule.severity, category |-> rule.category, title |-> rule.name,
     filename |-> filename, line |-> lineNumber, evidence |-> evidence, ruleId |-> rule.id]

LineIssues(line, lineNumber, filename, language) ==
    MapSeq(SelectSeq(SECURITY_RULES,
                     LAMBDA rule : RuleApplies(rule, language) /\ PatternTest(rule, line)),
           LAMBDA rule : IssueOf(rule, Trim(line), lineNumber, filename))

\* issues.filter(i => i.severity === sev).length, for the four named severities
CountSeverity(issues, sev) == CountIf(issues, LAMBDA i : i.severity = sev)

\* a count in which medium takes every issue that is not critical
BySeverityOverlapping(issues) ==
    [critical |-> CountSeverity(issues, "critical"), high |-> CountSeverity(issues, "high"),
     medium |-> CountIf(issues, LAMBDA i : i.severity # "critical"),
     low |-> CountSeverity(issues, "low")]

BySeverity(issues) ==
    [critical |-> CountSeverity(issues, "critical"), high |-> CountSeverity(issues, "high"),
     medium |-> CountSeverity(issues, "medium"), low |-> CountSeverity(issues, "low")]

Min(a, b) == IF a <= b THEN a ELSE b
Max(a, b) == IF a >= b THEN a ELSE b

\* the weighted sum without Math.min(score, 100)
calculateRiskScoreUncapped(bySeverity) ==
    bySeverity.critical * 25 + bySeverity.high * 10 + bySeverity.medium * 5
    + bySeverity.low * 1

\* SecurityScannerTool.calculateRiskScore
calculateRiskScore(bySeverity) ==
    Min(100, bySeverity.critical * 25 + bySeverity.high * 10
             + bySeverity.medium * 5 + bySeverity.low * 1)

\* the SecurityScanResult of a file with these issues
ScanResult(filename, issues, bySeverity) ==
    [filename |-> filename, totalIssues |-> Len(issues), bySeverity |-> bySeverity,
     issues |-> issues, riskScore |-> calculateRiskScore(bySeverity)]

ScanResultOf(filename, issues) == ScanResult(filename, issues, BySeverity(issues))

\* lines.forEach over the rules: line numbers are index + 1
ScanLines(lines, filename, language) ==
    Flatten([n \in 1..Len(lines) |-> LineIssues(lines[n], n, filename, language)])

\* SecurityScannerTool.scanFile(content, filename); filename.split raises on a non-string
scanFile(content, filename) ==
    IF ~IsString(filename) THEN Throw
    ELSE Return(ScanResultOf(filename.v,
                             ScanLines(SplitLines(content), filename.v,
                                       getFileLanguage(filename.v))))

\* line.startsWith("+") && !line.startsWith("+++")
IsAddedLine(line) == StartsWith(line, "+") /\ ~StartsWith(line, "+++")

\* SecurityScannerTool.extractAddedLines(patch), patch a string
extractAddedLines(patch) == MapSeq(SelectSeq(SplitLines(patch), IsAddedLine), Substring1)

\* a results list whose entries share one issues array: the scan of a file also
\* holds the issues of the file scanned before it
PushScanShared(results, scanResult) ==
    IF scanResult.threw THEN Throw
    ELSE IF scanResult.value.totalIssues > 0
    THEN Return(Append(results,
                       [scanResult.value EXCEPT
                           !.issues = (IF results = <<>> THEN <<>>
                                       ELSE results[Len(results)].issues) \o @]))
    ELSE Return(results)

\* SecurityScannerTool.scanFiles from file k on: no call of the loop is guarded, so
\* an exception raised for one file leaves scanFiles
\* results after the scan of one file; Throw when the scan raised
PushScan(results, scanResult) ==
    IF scanResult.threw THEN Throw
    ELSE IF scanResult.value.totalIssues > 0 THEN Return(Append(results, scanResult.value))
    ELSE Return(results)

\* results after the added lines of one file
ScanAdded(results, addedLines, filename) ==
    IF Len(addedLines) = 0 THEN Return(results)
    ELSE PushScan(results, scanFile(JoinLines(addedLines), filename))

RECURSIVE scanFilesFrom(_, _, _)
RECURSIVE ScanNext(_, _, _)
scanFilesFrom(files, k, results) ==
    IF k > Len(files) THEN Return(results)
    ELSE IF Falsy(files[k].patch) THEN scanFilesFrom(files, k + 1, results)
    ELSE IF ~IsString(files[k].patch) THEN Throw
    ELSE ScanNext(files, k, ScanAdded(results, extractAddedLines(files[k].patch.v),
                                      files[k].filename))

\* the loop goes on unless the scan of file k raised
ScanNext(files, k, pushed) ==
    IF pushed.threw THEN Throw ELSE scanFilesFrom(files, k + 1, pushed.value)

scanFiles(files) == scanFilesFrom(files, 1, <<>>)

(***************************************************************************)
(* FileAnalyzerTool                                                        *)
(***************************************************************************)
AnalyzerLanguageMap ==
    [k \in {"ts", "tsx", "js", "jsx", "py", "java", "go", "rs", "cpp", "c", "cs", "php", "rb",
            "kt", "swift", "md", "json", "yaml", "yml", "xml", "html", "css", "scss", "sass",
            "sql", "sh", "bash"} |->
        CASE k \in {"ts", "tsx"} -> "typescript"
          [] k \in {"js", "jsx"} -> "javascript"
          [] k = "py" -> "python"
          [] k = "rs" -> "rust"
          [] k = "cs" -> "csharp"
          [] k = "rb" -> "ruby"
          [] k = "kt" -> "kotlin"
          [] k = "md" -> "markdown"
          [] k \in {"yaml", "yml"} -> "yaml"
          [] k \in {"sh", "bash"} -> "shell"
          [] OTHER -> k]

\* FileAnalyzerTool.getFileType
getFileType(name) == MapLookup(AnalyzerLanguageMap, ToLowerCase(LastSegment(name, "")))

\* /@@ -(\d+),?\d* \+(\d+),?\d* @@/
HunkHeaderPattern ==
    RSeq(<<RLit("@@ -"), RGroup(1, RPlus(RDigit)), ROpt(RLit(",")), RStar(RDigit),
           RLit(" +"), RGroup(2, RPlus(RDigit)), ROpt(RLit(",")), RStar(RDigit), RLit(" @@")>>)

\* /(?:function\s+|const\s+)(\w+)/
ChangedFunctionPattern ==
    RSeq(<<RAlt(<<RSeq(<<RLit("function"), RPlus(RSpace)>>),
                  RSeq(<<RLit("const"), RPlus(RSpace)>>)>>),
           RGroup(1, RPlus(RWord))>>)

\* a header read without the `if (match)` guard: match[2] of null raises a TypeError
HunkLineUnguarded(line, currentLine) ==
    LET match == RxMatch(HunkHeaderPattern, line, FALSE)
    IN  IF match.matched THEN Return(ParseInt(match.caps[2])) ELSE Throw

\* analyzeDiff on a line that starts with "@@": the counter after it.  A header the
\* pattern does not match leaves the counter as it is.
HunkLine(line, currentLine) ==
    LET match == RxMatch(HunkHeaderPattern, line, FALSE)
    IN  IF match.matched THEN Return(ParseInt(match.caps[2])) ELSE Return(currentLine)

DiffStart ==
    [currentLine |-> 0, addedLines |-> <<>>, removedLines |-> <<>>,
     affectedFunctions |-> <<>>, numbering |-> <<>>, threw |-> FALSE]

\* One turn of the lines.forEach of analyzeDiff.  numbering is a history of the
\* local counter currentLine: for every line that advances it, the counter when the
\* line is reached, which is the new-file line number of that line after a hunk
\* header (the code keeps the counter only and returns neither).
DiffStep(d, line) ==
    IF d.threw THEN d
    ELSE IF StartsWith(line, "@@") THEN
        LET next == HunkLine(line, d.currentLine)
        IN  IF next.threw THEN [d EXCEPT !.threw = TRUE]
            ELSE [d EXCEPT !.currentLine = next.value]
    ELSE IF IsAddedLine(line) THEN
        LET named == IF Includes(line, "function") \/ Includes(line, "=>")
                     THEN RxMatch(ChangedFunctionPattern, line, FALSE)
                     ELSE NoMatch
        IN  [d EXCEPT !.addedLines = Append(@, Substring1(line)),
                      !.affectedFunctions = IF named.matched THEN Append(@, named.caps[1]) ELSE @,
                      !.numbering = Append(@, [kind |-> "added", n |-> d.currentLine]),
                      !.currentLine = @ + 1]
    ELSE IF StartsWith(line, "-") /\ ~StartsWith(line, "---") THEN
        [d EXCEPT !.removedLines = Append(@, Substring1(line))]
    ELSE IF ~StartsWith(line, "\\") THEN
        [d EXCEPT !.numbering = Append(@, [kind |-> "context", n |-> d.currentLine]),
                  !.currentLine = @ + 1]
    ELSE d

RECURSIVE DiffWalk(_, _, _)
DiffWalk(d, lines, k) ==
    IF k > Len(lines) THEN d ELSE DiffWalk(DiffStep(d, lines[k]), lines, k + 1)

ImpactLevel(totalChanges, functions) ==
    IF totalChanges > 100 \/ functions > 5 THEN "critical"
    ELSE IF totalChanges > 50 \/ functions > 2 THEN "high"
    ELSE IF totalChanges > 10 \/ functions > 0 THEN "medium"
    ELSE "low"

\* what analyzeDiff returns once lines.forEach is over, or raises
DiffResult(d, filename) ==
    LET totalChanges == Len(d.addedLines) + Len(d.removedLines)
    IN  IF d.threw THEN Throw
        ELSE Return([filename |-> filename, totalChanges |-> totalChanges,
                     addedLines |-> d.addedLines, removedLines |-> d.removedLines,
                     impactLevel |-> ImpactLevel(totalChanges, Len(d.affectedFunctions)),
                     affectedFunctions |-> d.affectedFunctions])

\* FileAnalyzerTool.analyzeDiff(patch, filename), patch a string
analyzeDiff(patch, filename) == DiffResult(DiffWalk(DiffStart, SplitLines(patch), 1), filename)

\* the line a patch line contributes to the reconstructed content, <<>> for none
ReconstructLine(line) ==
    IF IsAddedLine(line) THEN <<Substring1(line)>>
    ELSE IF ~StartsWith(line, "-") /\ ~StartsWith(line, "@@") /\ ~StartsWith(line, "\\")
    THEN <<line>>
    ELSE <<>>

\* FileAnalyzerTool.reconstructContentFromPatch(patch), patch a string
reconstructContentFromPatch(patch) ==
    LET lines == SplitLines(patch)
    IN  JoinLines(Flatten([k \in 1..Len(lines) |-> ReconstructLine(lines[k])]))

\* the issues analyzeJavaScriptFile reports for one line of the content
JsLineIssues(line, lineNumber) ==
    LET trimmedLine == Trim(line)
    IN  IF trimmedLine = "" \/ StartsWith(trimmedLine, "//") \/ StartsWith(trimmedLine, "*")
        THEN <<>>
        ELSE (IF Includes(trimmedLine, "console.log")
              THEN <<[type |-> "warning", message |-> "console.log", line |-> lineNumber]>>
              ELSE <<>>)
             \o (IF Includes(trimmedLine, "any")
                 THEN <<[type |-> "info", message |-> "any", line |-> lineNumber]>>
                 ELSE <<>>)
             \o (IF Len(trimmedLine) > 120
                 THEN <<[type |-> "warning", message |-> "long-line", line |-> lineNumber]>>
                 ELSE <<>>)

IsCodeLine(line) ==
    LET trimmedLine == Trim(line)
    IN  ~(trimmedLine = "" \/ StartsWith(trimmedLine, "//") \/ StartsWith(trimmedLine, "*"))

\* FileAnalyzerTool.analyzeJavaScriptFile(content, filename): the fields the
\* properties below read (functions, imports and exports are left out)
analyzeJavaScriptFile(content, filename) ==
    LET lines == SplitLines(content)
    IN  [filename |-> filename, language |-> getFileType(filename), size |-> Len(content),
         linesOfCode |-> CountIf(lines, IsCodeLine),
         issues |-> Flatten([n \in 1..Len(lines) |-> JsLineIssues(lines[n], n)])]

\* the result analyzeFiles pushes from its catch block
AnalysisErrorResult(file, language) ==
    [filename |-> file.filename.v, language |-> language,
     size |-> IF IsString(file.patch) THEN Len(file.patch.v) ELSE 0,
     linesOfCode |-> file.additions - file.deletions,
     issues |-> <<[type |-> "warning", message |-> "analysis-error", line |-> 1]>>]

\* FileAnalyzerTool.analyzeFiles from file k on.  getFileType(file.filename) is
\* called outside the try block; reconstructContentFromPatch and
\* analyzeJavaScriptFile inside it.
RECURSIVE analyzeFilesFrom(_, _, _)
analyzeFilesFrom(files, k, results) ==
    IF k > Len(files) THEN Return(results)
    ELSE LET file == files[k]
         IN  IF Falsy(file.patch) THEN analyzeFilesFrom(files, k + 1, results)
             ELSE IF ~IsString(file.filename) THEN Throw
             ELSE LET language == getFileType(file.filename.v)
                  IN  IF language \notin {"typescript", "javascript"}
                      THEN analyzeFilesFrom(files, k + 1, results)
                      ELSE IF ~IsString(file.patch)
                      THEN analyzeFilesFrom(files, k + 1,
                                            Append(results, AnalysisErrorResult(file, language)))
                      ELSE analyzeFilesFrom(files, k + 1,
                               Append(results,
                                      analyzeJavaScriptFile(
                                          reconstructContentFromPatch(file.patch.v),
                                          file.filename.v)))

analyzeFiles(files) == analyzeFilesFrom(files, 1, <<>>)

(***************************************************************************)
(* JavaScript numbers.  A finite number is held in thousandths (v); NaN    *)
(* and the two infinities are values of their own, with the arithmetic of  *)
(* IEEE 754 on them.  Logarithms are computed to about 0.005.              *)
(***************************************************************************)
Fin(v) == [k |-> "fin", v |-> v]
NaN == [k |-> "nan", v |-> 0]
PosInf == [k |-> "inf", v |-> 1]
NegInf == [k |-> "inf", v |-> -1]
Int2F(n) == Fin(1000 * n)

IsFinite(a) == a.k = "fin"
Sign(a) == IF a.v > 0 THEN 1 ELSE IF a.v < 0 THEN -1 ELSE 0

\* a + b
FAdd(a, b) ==
    IF a.k = "nan" \/ b.k = "nan" THEN NaN
    ELSE IF a.k = "inf" /\ b.k = "inf" THEN (IF a.v = b.v THEN a ELSE NaN)
    ELSE IF a.k = "inf" THEN a
    ELSE IF b.k = "inf" THEN b
    ELSE Fin(a.v + b.v)

\* a * b
FMul(a, b) ==
    IF a.k = "nan" \/ b.k = "nan" THEN NaN
    ELSE IF a.k = "inf" \/ b.k = "inf"
         THEN (IF Sign(a) * Sign(b) = 0 THEN NaN
               ELSE IF Sign(a) * Sign(b) > 0 THEN PosInf ELSE NegInf)
    ELSE Fin((a.v * b.v) \div 1000)

FNeg(a) == IF a.k = "nan" THEN NaN ELSE [a EXCEPT !.v = -a.v]
FSub(a, b) == FAdd(a, FNeg(b))

\* a / b for two integers
IntDiv(a, b) ==
    IF b = 0 THEN (IF a = 0 THEN NaN ELSE IF a > 0 THEN PosInf ELSE NegInf)
    ELSE Fin((1000 * a) \div b)

\* a > b, a < b: false as soon as one side is NaN
FGreater(a, b) ==
    /\ a.k # "nan" /\ b.k # "nan"
    /\ IF a.k = "inf" THEN a.v > 0 /\ b # a
       ELSE IF b.k = "inf" THEN b.v < 0
       ELSE a.v > b.v
FLess(a, b) == FGreater(b, a)

\* Math.min, Math.max: NaN as soon as one argument is NaN
FMin(a, b) == IF a.k = "nan" \/ b.k = "nan" THEN NaN ELSE IF FLess(b, a) THEN b ELSE a
FMax(a, b) == IF a.k = "nan" \/ b.k = "nan" THEN NaN ELSE IF FGreater(b, a) THEN b ELSE a

\* ln of v thousandths, v > 0, in thousandths: halve or double into [1, 2), then
\* the series 2 (y + y^3/3 + y^5/5) with y = (m - 1) / (m + 1)
RECURSIVE LnMilli(_)
LnMilli(v) ==
    IF v >= 2000 THEN 693 + LnMilli(v \div 2)
    ELSE IF v < 1000 THEN LnMilli(2 * v) - 693
    ELSE LET y == ((v - 1000) * 1000) \div (v + 1000)
             y2 == (y * y) \div 1000
             y3 == (y * y2) \div 1000
             y5 == (y3 * y2) \div 1000
         IN  2 * (y + y3 \div 3 + y5 \div 5)

\* Math.log
FLog(a) ==
    IF a.k = "nan" THEN NaN
    ELSE IF a.k = "inf" THEN (IF a.v > 0 THEN PosInf ELSE NaN)
    ELSE IF a.v < 0 THEN NaN
    ELSE IF a.v = 0 THEN NegInf
    ELSE Fin(LnMilli(a.v))

\* Math.log2
FLog2(a) == FMul(FLog(a), Fin(1443))

(***************************************************************************)
(* CodeMetricsTool                                                         *)
(***************************************************************************)
MetricsLanguageMap ==
    [k \in {"ts", "tsx", "js", "jsx", "py", "java", "go"} |->
        CASE k \in {"ts", "tsx"} -> "typescript"
          [] k \in {"js", "jsx"} -> "javascript"
          [] k = "py" -> "python"
          [] OTHER -> k]

\* CodeMetricsTool.detectLanguage
detectLanguage(name) == MapLookup(MetricsLanguageMap, ToLowerCase(LastSegment(name, "")))

\* CodeMetricsTool.extractAddedContent(patch), patch a string
extractAddedContent(patch) ==
    JoinLines(MapSeq(SelectSeq(SplitLines(patch), IsAddedLine), Substring1))

IsBlank(line) == Trim(line) = ""
IsComment(line) ==
    LET trimmed == Trim(line)
    IN  trimmed # "" /\ (StartsWith(trimmed, "//") \/ StartsWith(trimmed, "*")
                          \/ StartsWith(trimmed, "/*"))

\* CodeMetricsTool.calculateBasicMetrics
calculateBasicMetrics(lines) ==
    [linesOfCode |-> Len(lines),
     logicalLinesOfCode |-> CountIf(lines, LAMBDA l : ~IsBlank(l) /\ ~IsComment(l)),
     commentLines |-> CountIf(lines, IsComment),
     blankLines |-> CountIf(lines, IsBlank)]

\* (?:async\s+)?(?:function\s+|const\s+|let\s+|var\s+)?(\w+)\s*(?:=\s*)?(?:async\s+)?\(([^)]*)\)
\*   |(\w+)\s*:\s*(?:async\s+)?\([^)]*\)\s*=>
FunctionPattern ==
    RAlt(<<
        RSeq(<<ROpt(RSeq(<<RLit("async"), RPlus(RSpace)>>)),
               ROpt(RAlt(<<RSeq(<<RLit("function"), RPlus(RSpace)>>),
                           RSeq(<<RLit("const"), RPlus(RSpace)>>),
                           RSeq(<<RLit("let"), RPlus(RSpace)>>),
                           RSeq(<<RLit("var"), RPlus(RSpace)>>)>>)),
               RGroup(1, RPlus(RWord)), RStar(RSpace),
               ROpt(RSeq(<<RLit("="), RStar(RSpace)>>)),
               ROpt(RSeq(<<RLit("async"), RPlus(RSpace)>>)),
               RLit("("), RGroup(2, RStar(RNot({")"}))), RLit(")")>>),
        RSeq(<<RGroup(3, RPlus(RWord)), RStar(RSpace), RLit(":"), RStar(RSpace),
               ROpt(RSeq(<<RLit("async"), RPlus(RSpace)>>)),
               RLit("("), RStar(RNot({")"})), RLit(")"), RStar(RSpace), RLit("=>")>>)
    >>)

\* (s.match(/c/g) || []).length for a one-character pattern
CountChar(s, c) == Cardinality({ i \in 1..Len(s) : CharAt(s, i) = c })

\* parameters ? parameters.split(",").length : 0
ParamCount(parameters) == IF parameters = "" THEN 0 ELSE CountChar(parameters, ",") + 1

\* x || y on strings
OrElse(x, y) == IF x # "" THEN x ELSE y

NoFunction == [open |-> FALSE, name |-> "", line |-> 0, complexity |-> 0, parameterCount |-> 0]

ScanStart == [functions |-> <<>>, current |-> NoFunction, braceCount |-> 0,
              currentNestingDepth |-> 0]

\* the complexity a line adds to the function that is open
BranchIncrements(trimmed) ==
    (IF Includes(trimmed, "if") \/ Includes(trimmed, "else if") THEN 1 ELSE 0)
    + (IF Includes(trimmed, "for") \/ Includes(trimmed, "while") \/ Includes(trimmed, "do")
       THEN 1 ELSE 0)
    + (IF Includes(trimmed, "switch") THEN 1 ELSE 0)
    + (IF Includes(trimmed, "catch") THEN 1 ELSE 0)

\* the function a line opens: functionMatch && (trimmed.includes("function") ||
\* trimmed.includes("=>")) replaces the open function and resets the brace counters
OpenFunction(st, trimmed, lineNumber, functionMatch) ==
    IF functionMatch.matched /\ (Includes(trimmed, "function") \/ Includes(trimmed, "=>"))
    THEN [st EXCEPT
             !.current = [open |-> TRUE,
                          name |-> OrElse(functionMatch.caps[1],
                                          OrElse(functionMatch.caps[3], "anonymous")),
                          line |-> lineNumber, complexity |-> 1,
                          parameterCount |-> ParamCount(functionMatch.caps[2])],
             !.braceCount = 0, !.currentNestingDepth = 0]
    ELSE st

\* if (currentFunction) { ... }: braces, nesting depth, complexity, and the function
\* is closed on a line that only closes braces and brings the count to 0
CountBraces(st, lineNumber, openBraces, closeBraces, increments) ==
    LET braceCount == st.braceCount + openBraces - closeBraces
        depth == Max(st.currentNestingDepth, braceCount)
        complexity == st.current.complexity + increments
    IN  IF ~st.current.open THEN st
        ELSE IF braceCount = 0 /\ openBraces = 0 /\ closeBraces > 0
        THEN [functions |-> Append(st.functions,
                                   [name |-> st.current.name, line |-> st.current.line,
                                    endLine |-> lineNumber,
                                    complexity |-> complexity,
                                    length |-> lineNumber - st.current.line + 1,
                                    parameterCount |-> st.current.parameterCount,
                                    nestingDepth |-> depth]),
              current |-> NoFunction, braceCount |-> braceCount,
              currentNestingDepth |-> depth]
        ELSE [st EXCEPT !.current.complexity = complexity, !.braceCount = braceCount,
                        !.currentNestingDepth = depth]

ScanTrimmed(st, line, lineNumber, trimmed) ==
    CountBraces(OpenFunction(st, trimmed, lineNumber, RxMatch(FunctionPattern, trimmed, FALSE)),
                lineNumber, CountChar(line, "{"), CountChar(line, "}"),
                BranchIncrements(trimmed))

\* One turn of the lines.forEach of analyzeJavaScriptFunctions
FunctionScanStep(st, line, lineNumber) == ScanTrimmed(st, line, lineNumber, Trim(line))

RECURSIVE FunctionScan(_, _, _)
FunctionScan(st, lines, k) ==
    IF k > Len(lines) THEN st
    ELSE FunctionScan(FunctionScanStep(st, lines[k], k), lines, k + 1)

\* CodeMetricsTool.analyzeJavaScriptFunctions
analyzeJavaScriptFunctions(lines) == FunctionScan(ScanStart, lines, 1).functions

\* CodeMetricsTool.analyzeFunctions
analyzeFunctions(content, language) ==
    IF language \in {"typescript", "javascript"}
    THEN analyzeJavaScriptFunctions(SplitLines(content))
    ELSE <<>>

\* the constructs calculateCognitiveComplexity counts on a line
CognitiveConstructs(trimmed) ==
    (IF Includes(trimmed, "if") \/ Includes(trimmed, "else if") THEN 1 ELSE 0)
    + (IF Includes(trimmed, "for") \/ Includes(trimmed, "while") THEN 1 ELSE 0)
    + (IF Includes(trimmed, "switch") THEN 1 ELSE 0)
    + (IF Includes(trimmed, "catch") THEN 1 ELSE 0)

CognitiveAdd(st, nestingLevel, constructs) ==
    [nestingLevel |-> nestingLevel,
     complexity |-> st.complexity + constructs * (1 + nestingLevel)]

\* One turn of the loop of calculateCognitiveComplexity
CognitiveStep(st, line) ==
    CognitiveAdd(st, st.nestingLevel + CountChar(line, "{") - CountChar(line, "}"),
                 CognitiveConstructs(Trim(line)))

RECURSIVE CognitiveScan(_, _, _)
CognitiveScan(st, lines, k) ==
    IF k > Len(lines) THEN st ELSE CognitiveScan(CognitiveStep(st, lines[k]), lines, k + 1)

\* CodeMetricsTool.calculateCognitiveComplexity
calculateCognitiveComplexity(content) ==
    CognitiveScan([nestingLevel |-> 0, complexity |-> 0], SplitLines(content), 1).complexity

\* Math.max(...values, 0)
RECURSIVE MaxOf(_)
MaxOf(values) == IF values = <<>> THEN 0 ELSE Max(values[1], MaxOf(Tail(values)))

\* CodeMetricsTool.calculateComplexityMetrics
calculateComplexityMetrics(content, functions) ==
    [cyclomaticComplexity |-> SumSeq(MapSeq(functions, LAMBDA fn : fn.complexity)),
     cognitiveComplexity |-> calculateCognitiveComplexity(content),
     nestingDepth |-> MaxOf(MapSeq(functions, LAMBDA fn : fn.nestingDepth)),
     functionCount |-> Len(functions),
     averageFunctionLength |->
        IF Len(functions) > 0
        THEN IntDiv(SumSeq(MapSeq(functions, LAMBDA fn : fn.length)), Len(functions))
        ELSE Int2F(0),
     longestFunction |-> MaxOf(MapSeq(functions, LAMBDA fn : fn.length))]

\* the index without Math.max(0, Math.min(100, ...))
calculateMaintainabilityIndexUnclamped(linesOfCode, cyclomaticComplexity, commentRatio) ==
    FAdd(FSub(FSub(FSub(Int2F(171),
                        FMul(Fin(5200),
                             FLog(FMul(Int2F(linesOfCode), FLog2(Int2F(linesOfCode + 1)))))),
                   FMul(Fin(230),
                        Int2F(IF cyclomaticComplexity # 0 THEN cyclomaticComplexity ELSE 1))),
              FMul(Fin(16200), FLog(Int2F(linesOfCode)))),
         FMul(commentRatio, Int2F(10)))

\* CodeMetricsTool.calculateMaintainabilityIndex
calculateMaintainabilityIndex(linesOfCode, cyclomaticComplexity, commentRatio) ==
    LET volume == FMul(Int2F(linesOfCode), FLog2(Int2F(linesOfCode + 1)))
        complexity == IF cyclomaticComplexity # 0 THEN cyclomaticComplexity ELSE 1
        index == FSub(FSub(FSub(Int2F(171), FMul(Fin(5200), FLog(volume))),
                           FMul(Fin(230), Int2F(complexity))),
                      FMul(Fin(16200), FLog(Int2F(linesOfCode))))
    IN  FMax(Int2F(0), FMin(Int2F(100), FAdd(index, FMul(commentRatio, Int2F(10)))))

\* lines that repeat an earlier line of more than 10 characters (after trim)
DuplicateLines(lines) ==
    Cardinality({ i \in 1..Len(lines) :
                    /\ Len(Trim(lines[i])) > 10
                    /\ \E j \in 1..(i - 1) : Trim(lines[j]) = Trim(lines[i]) })

\* CodeMetricsTool.estimateDuplicateCode
estimateDuplicateCode(lines) ==
    IF Len(lines) > 0 THEN IntDiv(DuplicateLines(lines), Len(lines)) ELSE Int2F(0)

\* the findings identifyProblematicFunctions reports for one function
ProblemsOf(fn) ==
    (IF fn.complexity > 10
     THEN <<[name |-> fn.name, line |-> fn.line, issue |-> "too-complex", value |-> fn.complexity]>>
     ELSE <<>>)
    \o (IF fn.length > 50
        THEN <<[name |-> fn.name, line |-> fn.line, issue |-> "too-long", value |-> fn.length]>>
        ELSE <<>>)
    \o (IF fn.parameterCount > 5
        THEN <<[name |-> fn.name, line |-> fn.line, issue |-> "too-many-params",
                value |-> fn.parameterCount]>>
        ELSE <<>>)
    \o (IF fn.nestingDepth > 4
        THEN <<[name |-> fn.name, line |-> fn.line, issue |-> "deeply-nested",
                value |-> fn.nestingDepth]>>
        ELSE <<>>)

\* CodeMetricsTool.identifyProblematicFunctions
identifyProblematicFunctions(functions) ==
    Flatten([k \in 1..Len(functions) |-> ProblemsOf(functions[k])])

\* CodeMetricsTool.calculateQualityScore
calculateQualityScore(metrics) ==
    LET s1 == IF metrics.cyclomaticComplexity > 20 THEN 80
              ELSE IF metrics.cyclomaticComplexity > 10 THEN 90 ELSE 100
        s2 == IF metrics.linesOfCode > 1000 THEN s1 - 15
              ELSE IF metrics.linesOfCode > 500 THEN s1 - 10 ELSE s1
        s3 == s2 - metrics.problematicFunctionCount * 5
        s4 == FSub(Int2F(s3), FMul(metrics.duplicateCodeRatio, Int2F(20)))
        s5 == IF FGreater(metrics.maintainabilityIndex, Int2F(80)) THEN FAdd(s4, Int2F(5))
              ELSE IF FLess(metrics.maintainabilityIndex, Int2F(50)) THEN FSub(s4, Int2F(10))
              ELSE s4
    IN  FMax(Int2F(0), FMin(Int2F(100), s5))

\* the CodeMetrics record calculateMetrics returns.  classCount, methodCount and
\* suggestions, which no score reads, are left out.
MetricsRecord(filename, language, basicMetrics, complexityMetrics, maintainabilityIndex, duplicateCodeRatio, problematicFunctions) ==
    [filename |-> filename, language |-> language,
     linesOfCode |-> basicMetrics.linesOfCode,
     logicalLinesOfCode |-> basicMetrics.logicalLinesOfCode,
     commentLines |-> basicMetrics.commentLines,
     blankLines |-> basicMetrics.blankLines,
     cyclomaticComplexity |-> complexityMetrics.cyclomaticComplexity,
     cognitiveComplexity |-> complexityMetrics.cognitiveComplexity,
     nestingDepth |-> complexityMetrics.nestingDepth,
     functionCount |-> complexityMetrics.functionCount,
     longestFunction |-> complexityMetrics.longestFunction,
     maintainabilityIndex |-> maintainabilityIndex,
     duplicateCodeRatio |-> duplicateCodeRatio,
     qualityScore |->
         calculateQualityScore(
             [cyclomaticComplexity |-> complexityMetrics.cyclomaticComplexity,
              linesOfCode |-> basicMetrics.linesOfCode,
              problematicFunctionCount |-> Len(problematicFunctions),
              duplicateCodeRatio |-> duplicateCodeRatio,
              maintainabilityIndex |-> maintainabilityIndex]),
     problematicFunctions |-> problematicFunctions]

\* calculateMetrics once basicMetrics, complexityMetrics, duplicateCodeRatio and
\* problematicFunctions are known
MetricsWithIndex(filename, language, basicMetrics, complexityMetrics, duplicateCodeRatio, problematicFunctions) ==
    MetricsRecord(filename, language, basicMetrics, complexityMetrics,
                  calculateMaintainabilityIndex(
                      basicMetrics.linesOfCode, complexityMetrics.cyclomaticComplexity,
                      IntDiv(basicMetrics.commentLines, basicMetrics.linesOfCode)),
                  duplicateCodeRatio, problematicFunctions)

\* calculateMetrics once the lines and the functions are known
MetricsOfFunctions(content, filename, language, lines, functions) ==
    MetricsWithIndex(filename, language, calculateBasicMetrics(lines),
                     calculateComplexityMetrics(content, functions),
                     estimateDuplicateCode(lines), identifyProblematicFunctions(functions))

MetricsOfLanguage(content, filename, language) ==
    MetricsOfFunctions(content, filename, language, SplitLines(content),
                       analyzeFunctions(content, language))

\* CodeMetricsTool.calculateMetrics(content, filename): detectLanguage raises on a
\* filename that is not a string
calculateMetrics(content, filename) ==
    IF ~IsString(filename) THEN Throw
    ELSE Return(MetricsOfLanguage(content, filename.v, detectLanguage(filename.v)))

\* CodeMetricsTool.calculateBatchMetrics from file k on.  extractAddedContent is
\* called outside the try block; an exception of calculateMetrics is caught, logged
\* with console.warn, and the file gets no entry.
\* results after the try block around calculateMetrics
PushMetrics(results, metrics) == IF metrics.threw THEN results ELSE Append(results, metrics.value)

\* results after the addedContent of one file
MetricsOfAdded(results, addedContent, filename) ==
    IF Len(Trim(addedContent)) = 0 THEN results
    ELSE PushMetrics(results, calculateMetrics(addedContent, filename))

RECURSIVE calculateBatchMetricsFrom(_, _, _)
calculateBatchMetricsFrom(files, k, results) ==
    IF k > Len(files) THEN Return(results)
    ELSE IF Falsy(files[k].patch) THEN calculateBatchMetricsFrom(files, k + 1, results)
    ELSE IF ~IsString(files[k].patch) THEN Throw
    ELSE calculateBatchMetricsFrom(
             files, k + 1,
             MetricsOfAdded(results, extractAddedContent(files[k].patch.v),
                            files[k].filename))

calculateBatchMetrics(files) == calculateBatchMetricsFrom(files, 1, <<>>)

(***************************************************************************)
(* SecurityScannerTool: prioritizeIssues and generateSecuritySummary       *)
(***************************************************************************)
PriorityOrder(severity) ==
    CASE severity = "critical" -> 4 [] severity = "high" -> 3
      [] severity = "medium" -> 2 [] severity = "low" -> 1

\* categoryPriority[category] || 0
CategoryPriority(category) ==
    CASE category = "injection" -> 5 [] category = "sensitive-data" -> 4
      [] category \in {"authentication", "authorization"} -> 3
      [] category = "cryptography" -> 2
      [] category \in {"configuration", "dependencies"} -> 1
      [] OTHER -> 0

\* the comparator handed to issues.sort: negative when a goes first
CompareIssues(a, b) ==
    LET severityDiff == PriorityOrder(b.severity) - PriorityOrder(a.severity)
    IN  IF severityDiff # 0 THEN severityDiff
        ELSE CategoryPriority(b.category) - CategoryPriority(a.category)

\* x put into a sorted list behind every entry that does not have to follow it
InsertIssue(sorted, x) ==
    LET later == { j \in 1..Len(sorted) : CompareIssues(sorted[j], x) > 0 }
        p == IF later = {} THEN Len(sorted) + 1
             ELSE CHOOSE j \in later : \A k \in later : j <= k
    IN  SubSeq(sorted, 1, p - 1) \o <<x>> \o SubSeq(sorted, p, Len(sorted))

RECURSIVE SortIssues(_, _)
SortIssues(sorted, rest) ==
    IF rest = <<>> THEN sorted ELSE SortIssues(InsertIssue(sorted, Head(rest)), Tail(rest))

\* the issues in the order they were given, without the sort
prioritizeIssuesUnsorted(issues) == issues

\* SecurityScannerTool.prioritizeIssues: Array.prototype.sort is stable and sorts
\* the array it is given in place; the value is both the result and the new
\* content of the argument
prioritizeIssues(issues) == SortIssues(<<>>, issues)

RiskLevel(bySeverity) ==
    IF bySeverity.critical > 0 THEN "critical"
    ELSE IF bySeverity.high > 2 THEN "high"
    ELSE IF bySeverity.high > 0 \/ bySeverity.medium > 5 THEN "medium"
    ELSE "low"

\* SecurityScannerTool.generateSecuritySummary(results).  allIssues is the new
\* array flatMap builds, so the sort of prioritizeIssues reorders no list of results.
generateSecuritySummary(results) ==
    LET allIssues == Flatten(MapSeq(results, LAMBDA r : r.issues))
        bySeverity == BySeverity(allIssues)
        sorted == prioritizeIssues(allIssues)
    IN  [totalFiles |-> Len(results), totalIssues |-> Len(allIssues),
         bySeverity |-> bySeverity, riskLevel |-> RiskLevel(bySeverity),
         topIssues |-> SubSeq(sorted, 1, Min(5, Len(sorted)))]

(***************************************************************************)
(* SecurityHelpers.detectAuthenticationIssues                              *)
(***************************************************************************)
\* /name\s*[:=]\s*[Q][^Q]{n,}[Q]/i
SecretPattern(name, n) ==
    RSeq(<<name, RStar(RSpace), RSet({":", "="}), RStar(RSpace), RQuote,
           RAtLeast(RNot(Quotes), n), RQuote>>)

secretPatterns == <<
    SecretPattern(RLit("password"), 3),
    SecretPattern(RSeq(<<RLit("api"), ROpt(RSet({"_", "-"})), RLit("key")>>), 10),
    SecretPattern(RLit("secret"), 8),
    SecretPattern(RLit("token"), 10) >>

\* /[Q][^Q]{3,}[Q]/
QuotedLiteralPattern == RSeq(<<RQuote, RAtLeast(RNot(Quotes), 3), RQuote>>)

Redacted == "***REDACTED***"

\* content.replace(pattern, replacement) with a pattern that has no g flag: the
\* leftmost match only
ReplaceFirst(content, pattern, replacement) ==
    LET m == RxMatch(pattern, content, FALSE)
    IN  IF m.matched
        THEN SubSeq(content, 1, m.start - 1) \o replacement
             \o SubSeq(content, m.end, Len(content))
        ELSE content

\* the comments detectAuthenticationIssues emits for line index + 1 of the patch
AuthLineIssues(line, lineNumber, filename) ==
    IF ~StartsWith(line, "+") THEN <<>>
    ELSE LET content == Trim(Substring1(line))
             hits == SelectSeq(secretPatterns, LAMBDA pattern : RxTest(pattern, content, TRUE))
         IN  [k \in 1..Len(hits) |->
                 [id |-> "auth-hardcoded", filename |-> filename, line |-> lineNumber,
                  severity |-> "critical",
                  codeSnippet |-> ReplaceFirst(content, QuotedLiteralPattern, Redacted)]]
             \o (IF Includes(content, "md5") \/ Includes(content, "sha1")
                 THEN <<[id |-> "auth-weak-hash", filename |-> filename, line |-> lineNumber,
                         severity |-> "error", codeSnippet |-> content]>>
                 ELSE <<>>)
             \o (IF Includes(content, "jwt") /\ Includes(content, "secret")
                    /\ Len(content) < 50
                 THEN <<[id |-> "auth-jwt-weak", filename |-> filename, line |-> lineNumber,
                         severity |-> "warning", codeSnippet |-> content]>>
                 ELSE <<>>)

\* SecurityHelpers.detectAuthenticationIssues(patch, filename), patch a string
detectAuthenticationIssues(patch, filename) ==
    LET lines == SplitLines(patch)
    IN  Flatten([n \in 1..Len(lines) |-> AuthLineIssues(lines[n], n, filename)])

(***************************************************************************)
(* PRReviewWorkflow (index.ts) and SummaryAgentHelpers.consolidateResults. *)
(* The text a language model returns is outside the program: it is held to *)
(* a reply without a JSON block, for which parseAgentResponse returns no   *)
(* comments.  executionTimeMs is left out of the agent results.            *)
(***************************************************************************)
\* createErrorResult: the empty metadata object is written [failed |-> TRUE]
createErrorResult(agentName) ==
    [agentName |-> agentName, success |-> FALSE, comments |-> <<>>,
     metadata |-> [failed |-> TRUE]]

\* runCodeAnalysisAgent: analyzeFiles and calculateBatchMetrics, either raising
\* makes runSpecializedAgents push the error result
CodeAnalysisAgentResult(fileAnalysisResults, codeMetrics) ==
    IF fileAnalysisResults.threw \/ codeMetrics.threw
    THEN createErrorResult("code-analysis")
    ELSE [agentName |-> "code-analysis", success |-> TRUE, comments |-> <<>>,
          metadata |->
              [filesAnalyzed |-> Len(fileAnalysisResults.value),
               averageComplexity |->
                   IntDiv(SumSeq(MapSeq(codeMetrics.value,
                                        LAMBDA m : m.cyclomaticComplexity)),
                          Max(Len(codeMetrics.value), 1))]]

\* runSecurityAgent: scanFiles and generateSecuritySummary
SecurityAgentResult(securityResults, securitySummary) ==
    IF securityResults.threw \/ securitySummary.threw THEN createErrorResult("security")
    ELSE [agentName |-> "security", success |-> TRUE, comments |-> <<>>,
          metadata |->
              [filesScanned |-> Len(securityResults.value),
               totalSecurityIssues |-> securitySummary.value.totalIssues,
               riskLevel |-> securitySummary.value.riskLevel,
               riskScore |->
                   IntDiv(SumSeq(MapSeq(securityResults.value, LAMBDA r : r.riskScore)),
                          Max(Len(securityResults.value), 1))]]

\* SummaryAgentHelpers.consolidateResults(agentResults) read at the instant clock.
\* new Date().toISOString() is one text per instant: the instant stands for it.
consolidateResults(agentResults, clock) ==
    [timestamp |-> clock,
     totalAgents |-> Len(agentResults),
     overallSuccess |-> \A k \in 1..Len(agentResults) : agentResults[k].success,
     agentSummaries |->
         MapSeq(agentResults,
                LAMBDA result : [agentName |-> result.agentName, success |-> result.success,
                                 commentCount |-> Len(result.comments),
                                 metadata |-> result.metadata]),
     totalComments |->
         Len(Flatten(MapSeq(agentResults, LAMBDA result : result.comments)))]

(***************************************************************************)
(* GitHubActionEntrypoint and the parser of the webhook payload            *)
(***************************************************************************)
\* a number and an object of the payload
Num(n) == [t |-> "number", v |-> n]
Obj(fields) == [t |-> "object", v |-> fields]

\* !x is false: undefined, "" and 0 are falsy
Truthy(x) ==
    CASE x.t = "undefined" -> FALSE
      [] x.t = "string" -> x.v # ""
      [] x.t = "number" -> x.v # 0
      [] OTHER -> TRUE

\* x?.name
Field(x, name) == IF x.t = "object" THEN x.v[name] ELSE Undefined

\* GitHubActionEntrypoint.shouldProcessEvent: targetActions
TargetActions == {"opened", "synchronize", "reopened", "ready_for_review"}

\* GitHubActionEntrypoint.shouldProcessEvent
shouldProcessEvent(name, body) ==
    IF name # "pull_request" THEN FALSE
    ELSE IsString(body.action) /\ body.action.v \in TargetActions

\* parseGitHubPREvent: validActions
ValidActions == {"opened", "synchronize", "reopened"}

\* parseGitHubPREvent: the event built from a payload that passed the three tests
BuiltEvent(body, pr, repo) ==
    [action |-> body.action, number |-> body.number,
     pullRequest |->
         [id |-> pr.v.id, number |-> pr.v.number, title |-> pr.v.title, body |-> pr.v.body,
          head |-> [sha |-> pr.v.head.v.sha, ref |-> pr.v.head.v.ref],
          base |-> [sha |-> pr.v.base.v.sha, ref |-> pr.v.base.v.ref]],
     repository |->
         [id |-> repo.v.id, name |-> repo.v.name, fullName |-> repo.v.full_name,
          owner |-> [login |-> repo.v.owner.v.login]]]

\* parseGitHubPREvent(payload): every throw inside is rethrown by the catch block
parseGitHubPREvent(body) ==
    IF ~Truthy(body.action) \/ ~Truthy(body.number) \/ ~Truthy(body.pull_request)
       \/ ~Truthy(body.repository)
    THEN Throw
    ELSE IF \/ ~Truthy(Field(body.pull_request, "id"))
            \/ ~Truthy(Field(body.pull_request, "number"))
            \/ ~Truthy(Field(body.pull_request, "title"))
            \/ ~Truthy(Field(Field(body.pull_request, "head"), "sha"))
            \/ ~Truthy(Field(Field(body.pull_request, "head"), "ref"))
            \/ ~Truthy(Field(Field(body.pull_request, "base"), "sha"))
            \/ ~Truthy(Field(Field(body.pull_request, "base"), "ref"))
            \/ ~Truthy(Field(body.repository, "id"))
            \/ ~Truthy(Field(body.repository, "name"))
            \/ ~Truthy(Field(body.repository, "full_name"))
            \/ ~Truthy(Field(Field(body.repository, "owner"), "login"))
    THEN Throw
    ELSE IF ~(IsString(body.action) /\ body.action.v \in ValidActions) THEN Throw
    ELSE Return(BuiltEvent(body, body.pull_request, body.repository))

\* GitHubPREventSchema accepts the event: the action is of the enum, the numbers
\* are numbers and the texts are strings
GitHubPREventSchema(event) ==
    /\ IsString(event.action) /\ event.action.v \in {"opened", "synchronize", "reopened"}
    /\ event.number.t = "number"
    /\ event.pullRequest.id.t = "number" /\ event.pullRequest.number.t = "number"
    /\ IsString(event.pullRequest.title)
    /\ IsString(event.pullRequest.head.sha) /\ IsString(event.pullRequest.head.ref)
    /\ IsString(event.pullRequest.base.sha) /\ IsString(event.pullRequest.base.ref)
    /\ event.repository.id.t = "number"
    /\ IsString(event.repository.name) /\ IsString(event.repository.fullName)
    /\ IsString(event.repository.owner.login)

(***************************************************************************)
(* PRReviewWorkflow.reviewPR.  The reply of a language model is a text; it  *)
(* stands here as what parseAgentResponse and parseSummaryResult read of    *)
(* it: whether it holds a ```json block, whether JSON.parse accepts the     *)
(* block, and the value parsed.                                             *)
(***************************************************************************)
Reply(fenced, parses, parsed) == [fenced |-> fenced, parses |-> parses, parsed |-> parsed]

\* an array value
Arr(elements) == [t |-> "array", v |-> elements]

\* x || fallback, for a text
OrText(x, fallback) == IF Truthy(x) THEN x.v ELSE fallback

\* `${agentName}-${index}` for an index below 10
CommentId(agentName, index) == agentName \o "-" \o SubSeq("0123456789", index + 1, index + 1)

\* parseAgentResponse: the comment made of the issue at index (from 0)
CommentOf(issue, index, agentName) ==
    [id |-> CommentId(agentName, index),
     filename |-> OrText(issue.filename, "unknown"),
     line |-> issue.line,
     category |-> OrText(issue.category, "codeQuality"),
     severity |-> OrText(issue.severity, "info")]

\* PRReviewWorkflow.parseAgentResponse: the exception of JSON.parse is caught
parseAgentResponse(response, agentName) ==
    IF response.fenced /\ response.parses /\ response.parsed.issues.t = "array"
    THEN [k \in 1..Len(response.parsed.issues.v) |->
              CommentOf(response.parsed.issues.v[k], k - 1, agentName)]
    ELSE <<>>

\* runCodeAnalysisAgent: the tools, then generateText, then the result
runCodeAnalysisAgent(changed, generated) ==
    IF analyzeFiles(changed).threw \/ calculateBatchMetrics(changed).threw \/ generated.threw
    THEN Throw
    ELSE Return([CodeAnalysisAgentResult(analyzeFiles(changed), calculateBatchMetrics(changed))
                    EXCEPT !.comments = parseAgentResponse(generated.value, "code-analysis")])

\* runSecurityAgent
runSecurityAgent(changed, generated) ==
    IF scanFiles(changed).threw \/ generated.threw THEN Throw
    ELSE Return([SecurityAgentResult(scanFiles(changed),
                                     Return(generateSecuritySummary(scanFiles(changed).value)))
                    EXCEPT !.comments = parseAgentResponse(generated.value, "security")])

\* the comments of the category style
StyleIssues(comments) == Len(SelectSeq(comments, LAMBDA c : c.category = "style"))

\* runStyleAgent
runStyleAgent(changed, generated) ==
    IF analyzeFiles(changed).threw \/ generated.threw THEN Throw
    ELSE Return([agentName |-> "style", success |-> TRUE,
                 comments |-> parseAgentResponse(generated.value, "style"),
                 metadata |->
                     [filesAnalyzed |-> Len(analyzeFiles(changed).value),
                      styleIssues |->
                          StyleIssues(parseAgentResponse(generated.value, "style"))]])

\* the result list without the catch block: the agent that raised leaves nothing
PushAgentResultUncaught(results, outcome, agentName) ==
    IF outcome.threw THEN results ELSE Append(results, outcome.value)

\* runSpecializedAgents: one try/catch, the result of the agent or createErrorResult
PushAgentResult(results, outcome, agentName) ==
    Append(results, IF outcome.threw THEN createErrorResult(agentName) ELSE outcome.value)

\* flatMap(result => result.comments)
AllComments(agentResults) ==
    Flatten([k \in 1..Len(agentResults) |-> agentResults[k].comments])

\* SummaryAgentHelpers.calculateSeverityBreakdown
calculateSeverityBreakdown(comments) ==
    [critical |-> Len(SelectSeq(comments, LAMBDA c : c.severity = "critical")),
     error |-> Len(SelectSeq(comments, LAMBDA c : c.severity = "error")),
     warning |-> Len(SelectSeq(comments, LAMBDA c : c.severity = "warning")),
     info |-> Len(SelectSeq(comments, LAMBDA c : c.severity = "info"))]

\* SummaryAgentHelpers.mapRecommendation: recommendation?.toLowerCase()
SummaryMapRecommendation(recommendation) ==
    IF ~IsString(recommendation) THEN "comment"
    ELSE IF ToLowerCase(recommendation.v) = "approve" THEN "approve"
    ELSE IF ToLowerCase(recommendation.v) \in {"request_changes", "request-changes"}
    THEN "request_changes"
    ELSE "comment"

\* the recommendation of generateFallbackSummary
FallbackRecommendation(bySeverity, total) ==
    IF bySeverity.critical > 0 \/ bySeverity.error > 3 THEN "request_changes"
    ELSE IF total = 0 THEN "approve"
    ELSE "comment"

\* SummaryAgentHelpers.generateFallbackSummary
generateFallbackSummary(agentResults) ==
    [totalComments |-> Len(AllComments(agentResults)),
     bySeverity |-> calculateSeverityBreakdown(AllComments(agentResults)),
     recommendation |->
         FallbackRecommendation(calculateSeverityBreakdown(AllComments(agentResults)),
                                Len(AllComments(agentResults)))]

\* parsed.summary.bySeverity || { info: 0, warning: 0, error: 0, critical: 0 }
NoSeverities == [critical |-> 0, error |-> 0, warning |-> 0, info |-> 0]

\* SummaryAgentHelpers.parseSummaryResult: the summary of the reply when it has a
\* json block that parses and holds a summary; the TypeError of reading
\* parsed.summary.totalIssues of undefined and the error of JSON.parse are caught
\* and answered with the fallback summary
parseSummaryResult(response, agentResults) ==
    IF response.fenced /\ response.parses /\ response.parsed.summary.t = "object"
    THEN [totalComments |->
              IF Truthy(response.parsed.summary.v.totalIssues)
              THEN response.parsed.summary.v.totalIssues.v ELSE 0,
          bySeverity |-> NoSeverities,
          recommendation |-> SummaryMapRecommendation(response.parsed.summary.v.recommendation)]
    ELSE generateFallbackSummary(agentResults)

\* PRReviewWorkflow.generateSummary: the exception of summaryAgent.generateText
\* leaves the call
generateSummary(agentResults, generated) ==
    IF generated.threw THEN Throw
    ELSE Return(parseSummaryResult(generated.value, agentResults))

\* PRReviewWorkflow.mapRecommendation
mapRecommendation(recommendation) ==
    CASE recommendation = "approve" -> "approve"
      [] recommendation = "request_changes" -> "requestChanges"
      [] OTHER -> "comment"

\* reviewPR: the ReviewResult built from the agent results and the summary
BuildReviewResult(agentResults, summaryResult) ==
    [agentResults |-> agentResults,
     summary |-> [totalComments |-> summaryResult.totalComments,
                  bySeverity |-> summaryResult.bySeverity,
                  recommendation |-> mapRecommendation(summaryResult.recommendation)]]

\* PRReviewWorkflow.getSeverityPriority
getSeverityPriority(severity) ==
    CASE severity = "critical" -> 4 [] severity = "error" -> 3
      [] severity = "warning" -> 2 [] severity = "info" -> 1 [] OTHER -> 0

\* allComments.sort((a, b) => priority(b) - priority(a)): stable, highest first
InsertComment(sorted, c) ==
    LET later == { j \in 1..Len(sorted) :
                     getSeverityPriority(sorted[j].severity) < getSeverityPriority(c.severity) }
        p == IF later = {} THEN Len(sorted) + 1
             ELSE CHOOSE j \in later : \A k \in later : j <= k
    IN  SubSeq(sorted, 1, p - 1) \o <<c>> \o SubSeq(sorted, p, Len(sorted))

RECURSIVE SortComments(_, _)
SortComments(sorted, rest) ==
    IF rest = <<>> THEN sorted ELSE SortComments(InsertComment(sorted, Head(rest)), Tail(rest))

\* postReviewToGitHub: the ten first comments by severity that have a line
LineComments(agentResults) ==
    LET prioritized == SortComments(<<>>, AllComments(agentResults))
        kept == SelectSeq(SubSeq(prioritized, 1, Min(10, Len(prioritized))),
                          LAMBDA c : Truthy(c.line))
    IN  [k \in 1..Len(kept) |-> [path |-> kept[k].filename, line |-> kept[k].line.v]]

\* the event of the review that postReviewToGitHub creates
ReviewEvent(recommendation) ==
    CASE recommendation = "approve" -> "APPROVE"
      [] recommendation = "requestChanges" -> "REQUEST_CHANGES"
      [] OTHER -> "COMMENT"

\* the reviews of the pull request after a call that creates the review twice
postReviewToGitHubTwice(posted, reviewResult, created) ==
    IF ~created THEN Throw
    ELSE Return(posted \o
                << [event |-> ReviewEvent(reviewResult.summary.recommendation),
                    comments |-> LineComments(reviewResult.agentResults)],
                   [event |-> ReviewEvent(reviewResult.summary.recommendation),
                    comments |-> LineComments(reviewResult.agentResults)] >>)

\* PRReviewWorkflow.postReviewToGitHub: the reviews of the pull request after the
\* call; created is whether githubAPI.createReview succeeded, its exception is
\* logged and thrown again
postReviewToGitHub(posted, reviewResult, created) ==
    IF ~created THEN Throw
    ELSE Return(Append(posted,
                       [event |-> ReviewEvent(reviewResult.summary.recommendation),
                        comments |-> LineComments(reviewResult.agentResults)]))

(***************************************************************************)
(* Inputs                                                                  *)
(***************************************************************************)
MaxDiffLines == 4
MaxPatchLines == 2
MaxFiles == 2
MaxClock == 1

SeqsUpTo(S, n) == UNION { [1..k -> S] : k \in 0..n }

\* values held by the secrets of the input lines
SecretValues == {"abc12345", "abcd1234", "sk1234567890abcdefghij"}

CountLines(patch, Keep(_)) == CountIf(SplitLines(patch), Keep)
IsRemovedLine(line) == StartsWith(line, "-") /\ ~StartsWith(line, "---")

\* a FileChange as GitHub reports it: additions and deletions count the lines
FileChange(filename, patch) ==
    [filename |-> filename, patch |-> patch,
     additions |-> IF IsString(patch) THEN CountLines(patch.v, IsAddedLine) ELSE 0,
     deletions |-> IF IsString(patch) THEN CountLines(patch.v, IsRemovedLine) ELSE 0]

\* the patch lines of the diff walks
DiffLines ==
    {"@@ -5,2 +5,3 @@", "@@ -1 +1 @@ function f() {", "@@ garbled", "+a", "-b", " c",
     "\\ No newline at end of file", "+++ b/src/app.ts", "---i;"}

DiffPatches == { JoinLines(ls) : ls \in SeqsUpTo(DiffLines, MaxDiffLines) }

\* the patch lines of the single-file runs
CodeLines ==
    {"+const password = \"abc12345\";",
     "+pwd=\"abcd1234\";apiKey=\"sk1234567890abcdefghij\";exec($a)",
     "+el.innerHTML = md5(Math.random());",
     "+function f(a) {",
     "+}",
     "+// note",
     "+",
     " console.log(token)"}

CodePatches == { JoinLines(ls) : ls \in SeqsUpTo(CodeLines, MaxPatchLines) }

\* a line that builds a SQL statement from a string literal and a variable
ConcatenatedSqlLine == "const q = \"SELECT * FROM t WHERE id=\" + id;"

\* a patch that adds three short lines without a branching keyword
ThreeShortLinesPatch == "+a = 1;\n+b = 2;\n+c = 3;"

\* a patch that adds a function whose body is six nested if blocks
NestedIfsPatch ==
    "+function f(a) {\n+if (a) {\n+if (a) {\n+if (a) {\n+if (a) {\n+if (a) {\n+if (a) {\n"
    \o "+}\n+}\n+}\n+}\n+}\n+}\n+}"

\* a patch that adds a function written on one line
OneLineFunctionPatch == "+function g(a) { return a; }"

\* a patch that adds a function declared inside another function
NestedFunctionPatch == "+function outer() {\n+function inner() {\n+}\n+}"

\* a patch that adds a do ... while loop
DoWhilePatch == "+do {\n+} while (a);"

\* a patch that adds the end of two blocks and a statement after them
ClosingFragmentPatch == "+}\n+}\n+if (a) b();"

ScenarioPatches ==
    {"+" \o ConcatenatedSqlLine, ThreeShortLinesPatch, NestedIfsPatch, OneLineFunctionPatch,
     NestedFunctionPatch, DoWhilePatch, ClosingFragmentPatch}

Filenames == {"src/config.ts", "scripts/app.py"}

\* the files of the batches
FileCatalogue ==
    { FileChange(Str("src/config.ts"),
                 Str("@@ -1,2 +1,3 @@\n+const password = \"abc12345\";\n console.log(token)")),
      FileChange(Str("src/view.ts"),
                 Str("+++ b/src/any.ts\n+a.innerHTML = md5(Math.random());\n-eval(input)")),
      FileChange(Str("scripts/app.py"), Str("+a.innerHTML = md5(Math.random());")),
      FileChange(Str("src/plain.ts"), Str("@@ -1 +1 @@\n+const x = 1;")),
      FileChange(Str("src/risky.ts"),
                 Str("@@ -7,2 +7,3 @@\n c\n+a.innerHTML = readFile(../a) + $where${b}\n+++i; eval(input)")),
      FileChange(Str("src/empty.ts"), Str("")),
      FileChange(Str("src/binary.ts"), Undefined),
      FileChange(Str("src/odd.ts"), NotAString),
      FileChange(Undefined, Str("+const password = \"abc12345\";")) }

Batches == SeqsUpTo(FileCatalogue, MaxFiles)

\* the webhook events: the name of the event and the payload of github.context
EventNames == {"pull_request", "push"}

PayloadActions ==
    {Str("opened"), Str("synchronize"), Str("reopened"), Str("ready_for_review"),
     Str("closed"), Undefined}

CompleteHead == Obj([sha |-> Str("abc123"), ref |-> Str("feature/test")])
CompleteBase == Obj([sha |-> Str("def456"), ref |-> Str("main")])

PullRequestOf(title, head) ==
    Obj([id |-> Num(456), number |-> Num(123), title |-> title, body |-> Undefined,
         head |-> head, base |-> CompleteBase])

PayloadPullRequests ==
    {Undefined, PullRequestOf(Str("Test PR"), CompleteHead), PullRequestOf(Str(""), CompleteHead),
     PullRequestOf(Str("Test PR"), Undefined)}

RepositoryOf(owner) ==
    Obj([id |-> Num(789), name |-> Str("test-repo"), full_name |-> Str("test-owner/test-repo"),
         owner |-> owner])

PayloadRepositories ==
    {Undefined, RepositoryOf(Obj([login |-> Str("test-owner")])), RepositoryOf(Undefined)}

Payloads ==
    [action : PayloadActions, number : {Undefined, Num(123)},
     pull_request : PayloadPullRequests, repository : PayloadRepositories]

\* the payload has every field the parser reads
PayloadComplete(body) ==
    /\ body.number = Num(123)
    /\ body.pull_request = PullRequestOf(Str("Test PR"), CompleteHead)
    /\ body.repository = RepositoryOf(Obj([login |-> Str("test-owner")]))

\* the pull requests of the review runs: no file, one file, and a file whose patch
\* is not a string after a good one
ReviewBatches ==
    {<<>>,
     <<FileChange(Str("src/plain.ts"), Str("@@ -1 +1 @@\n+const x = 1;"))>>,
     <<FileChange(Str("src/plain.ts"), Str("@@ -1 +1 @@\n+const x = 1;")),
       FileChange(Str("src/odd.ts"), NotAString)>>}

\* the issues a specialised agent reports
ReportedIssue(severity, line) ==
    [filename |-> Str("src/plain.ts"), line |-> line, category |-> Str("security"),
     severity |-> severity]

\* the replies of a specialised agent
AgentReplies ==
    {Reply(FALSE, FALSE, [issues |-> Undefined]),
     Reply(TRUE, FALSE, [issues |-> Undefined]),
     Reply(TRUE, TRUE, [issues |-> Undefined]),
     Reply(TRUE, TRUE, [issues |-> Arr(<<ReportedIssue(Str("critical"), Num(1))>>)]),
     Reply(TRUE, TRUE, [issues |-> Arr(<<ReportedIssue(Undefined, Undefined),
                                         ReportedIssue(Str("error"), Num(1))>>)])}

\* generateText of an agent: a reply, or an exception
AgentGenerations == {Throw} \cup { Return(reply) : reply \in AgentReplies }

\* the replies of the summary agent
SummaryReplies ==
    {Reply(FALSE, FALSE, [summary |-> Undefined]),
     Reply(TRUE, TRUE, [summary |-> Undefined]),
     Reply(TRUE, TRUE, [summary |-> Obj([recommendation |-> Str("approve"),
                                         totalIssues |-> Num(0)])]),
     Reply(TRUE, TRUE, [summary |-> Obj([recommendation |-> Str("REQUEST-CHANGES"),
                                         totalIssues |-> Num(2)])]),
     Reply(TRUE, TRUE, [summary |-> Obj([recommendation |-> Undefined,
                                         totalIssues |-> Undefined])])}

SummaryGenerations == {Throw} \cup { Return(reply) : reply \in SummaryReplies }

\* the filenames of the classifier runs: a stem and an ending, and names without a dot
NameStems == {"a", "src/b.min", "Makefile", ""}
NameEndings == {"", ".", ".ts", ".TS", ".Tsx", ".py", ".md", ".xyz", ".constructor", ".__proto__"}
ClassifiedNames == { stem \o ending : stem \in NameStems, ending \in NameEndings } \cup {"c", "go"}

(***************************************************************************)
(* State                                                                   *)
(***************************************************************************)
VARIABLES
    plan,          \* the calls of this run, in order
    pc,            \* the index in plan of the next call
    file,          \* the FileChange of a single-file run
    files,         \* the FileChange list of a batch run
    pos,           \* analyzeDiff: index of the next line of lines.forEach
    walk,          \* analyzeDiff: currentLine and the lists collected so far
    diffResult,    \* what analyzeDiff returned
    addedLines,    \* what SecurityScannerTool.extractAddedLines returned
    addedContent,  \* what CodeMetricsTool.extractAddedContent returned
    rebuilt,       \* what reconstructContentFromPatch returned
    fileScan,      \* what scanFile returned
    fileMetrics,   \* what calculateMetrics returned
    authIssues,    \* what detectAuthenticationIssues returned
    analysis,      \* what analyzeFiles returned
    metrics,       \* what calculateBatchMetrics returned
    scan,          \* what scanFiles returned
    summary,       \* what generateSecuritySummary returned
    consolidated,  \* what consolidateResults returned
    now,           \* the clock new Date() reads
    run,           \* 1 in the first run of the pipeline over files, 2 in the second
    first,         \* the outputs of the first run
    fileType,      \* what FileAnalyzerTool.getFileType returned
    metricsLanguage, \* what CodeMetricsTool.detectLanguage returned
    scanLanguage,  \* what SecurityScannerTool.getFileLanguage returned
    eventName,     \* github.context.eventName
    payload,       \* github.context.payload
    accepted,      \* what shouldProcessEvent returned
    prEvent,       \* what GitHubEventParser.parsePREvent returned
    prInfo,        \* reviewPR: what getPRInfo returned
    agentResults,  \* reviewPR: the results runSpecializedAgents has pushed
    summaryResult, \* reviewPR: what generateSummary returned
    posted,        \* the reviews created on the pull request
    reviewResult,  \* what reviewPR returned
    steps          \* the calls reviewPR has made, in order

vars == <<plan, pc, file, files, pos, walk, diffResult, addedLines, addedContent, rebuilt,
          fileScan, fileMetrics, authIssues, analysis, metrics, scan, summary,
          consolidated, now, run, first, fileType, metricsLanguage, scanLanguage,
          eventName, payload, accepted, prEvent, prInfo, agentResults, summaryResult,
          posted, reviewResult, steps>>

diffVars == <<pos, walk, diffResult, addedLines, addedContent, rebuilt>>
fileVars == <<fileScan, fileMetrics, authIssues>>
batchVars == <<analysis, metrics, scan, summary, consolidated>>
inputVars == <<plan, file, files, run, first>>
nameVars == <<fileType, metricsLanguage, scanLanguage>>
eventVars == <<eventName, payload, accepted, prEvent>>
reviewVars == <<prInfo, agentResults, summaryResult, posted, reviewResult, steps>>

\* a call that has not been made
NotRun == [threw |-> FALSE, value |-> <<>>]

NoFile == FileChange(Str(""), Str(""))

DiffPlan == <<"analyzeDiff", "extractAddedLines", "extractAddedContent",
              "reconstructContentFromPatch">>
FilePlan == <<"extractAddedContent", "calculateMetrics", "scanFile",
              "detectAuthenticationIssues">>
NamePlan == <<"getFileType", "detectLanguage", "getFileLanguage">>
EventPlan == <<"shouldProcessEvent", "parsePREvent">>
ReviewPlan == <<"getPRInfo", "runCodeAnalysisAgent", "runSecurityAgent", "runStyleAgent",
                "generateSummary", "postReviewToGitHub">>
BatchPlan == <<"analyzeFiles", "calculateBatchMetrics", "scanFiles",
               "generateSecuritySummary", "consolidateResults">>

\* the call has been made in this run
Done(call) == \E k \in 1..(pc - 1) : plan[k] = call
AtCall(call) == pc <= Len(plan) /\ plan[pc] = call
Finished == pc > Len(plan)

Outputs ==
    [analysis |-> analysis, metrics |-> metrics, scan |-> scan, summary |-> summary,
     consolidated |-> consolidated]

\* no webhook event is being handled
NoEvent ==
    /\ eventName = ""
    /\ payload = [action |-> Undefined, number |-> Undefined, pull_request |-> Undefined,
                  repository |-> Undefined]

NothingRun ==
    /\ pc = 1 /\ pos = 1 /\ walk = DiffStart
    /\ diffResult = NotRun /\ addedLines = NotRun /\ addedContent = NotRun
    /\ rebuilt = NotRun /\ fileScan = NotRun /\ fileMetrics = NotRun
    /\ authIssues = NotRun /\ analysis = NotRun /\ metrics = NotRun /\ scan = NotRun
    /\ summary = NotRun /\ consolidated = NotRun
    /\ fileType = NotRun /\ metricsLanguage = NotRun /\ scanLanguage = NotRun
    /\ accepted = NotRun /\ prEvent = NotRun
    /\ prInfo = NotRun /\ agentResults = <<>> /\ summaryResult = NotRun
    /\ posted = <<>> /\ reviewResult = NotRun /\ steps = <<>>
    /\ now = 0 /\ run = 1
    /\ first = [analysis |-> NotRun, metrics |-> NotRun, scan |-> NotRun,
                summary |-> NotRun, consolidated |-> NotRun]

\* analyzeDiff over one patch
InitDiff ==
    /\ plan = DiffPlan
    /\ file \in { FileChange(Str("src/app.ts"), Str(p)) : p \in DiffPatches }
    /\ files = <<>>
    /\ NoEvent
    /\ NothingRun

\* the per-file tools over one file
InitFile ==
    /\ plan = FilePlan
    /\ file \in { FileChange(Str(name), Str(p)) :
                     name \in Filenames, p \in CodePatches \cup ScenarioPatches }
    /\ files = <<>>
    /\ NoEvent
    /\ NothingRun

\* the language classifiers over one filename
InitName ==
    /\ plan = NamePlan
    /\ file \in { FileChange(Str(name), Str("")) : name \in ClassifiedNames }
    /\ files = <<>>
    /\ NoEvent
    /\ NothingRun

\* GitHubActionEntrypoint.run over one webhook event
InitEvent ==
    /\ plan = EventPlan
    /\ file = NoFile
    /\ files = <<>>
    /\ eventName \in EventNames
    /\ payload \in Payloads
    /\ NothingRun

\* reviewPR over one pull request; files is what GitHub holds for it
InitReview ==
    /\ plan = ReviewPlan
    /\ file = NoFile
    /\ files \in ReviewBatches
    /\ NoEvent
    /\ NothingRun

\* the batch tools over a list of files
Init ==
    /\ plan = BatchPlan
    /\ file = NoFile
    /\ files \in Batches
    /\ NoEvent
    /\ NothingRun

(***************************************************************************)
(* Actions                                                                 *)
(***************************************************************************)
PatchLines == SplitLines(file.patch.v)

\* one turn of lines.forEach in analyzeDiff
AnalyzeDiffLine ==
    /\ AtCall("analyzeDiff") /\ ~walk.threw
    /\ LET lines == PatchLines
       IN  /\ pos <= Len(lines)
           /\ walk' = DiffStep(walk, lines[pos])
    /\ pos' = pos + 1
    /\ UNCHANGED <<pc, diffResult, addedLines, addedContent, rebuilt>>
    /\ UNCHANGED <<inputVars, fileVars, batchVars, now, nameVars, eventVars, reviewVars>>

\* analyzeDiff returns, or the exception of a turn leaves it
AnalyzeDiffReturn ==
    /\ AtCall("analyzeDiff") /\ (walk.threw \/ pos > Len(PatchLines))
    /\ diffResult' = DiffResult(walk, file.filename.v)
    /\ pc' = pc + 1
    /\ UNCHANGED <<pos, walk, addedLines, addedContent, rebuilt>>
    /\ UNCHANGED <<inputVars, fileVars, batchVars, now, nameVars, eventVars, reviewVars>>

ExtractAddedLines ==
    /\ AtCall("extractAddedLines")
    /\ addedLines' = IF IsString(file.patch) THEN Return(extractAddedLines(file.patch.v))
                     ELSE Throw
    /\ pc' = pc + 1
    /\ UNCHANGED <<pos, walk, diffResult, addedContent, rebuilt>>
    /\ UNCHANGED <<inputVars, fileVars, batchVars, now, nameVars, eventVars, reviewVars>>

ExtractAddedContent ==
    /\ AtCall("extractAddedContent")
    /\ addedContent' = IF IsString(file.patch) THEN Return(extractAddedContent(file.patch.v))
                       ELSE Throw
    /\ pc' = pc + 1
    /\ UNCHANGED <<pos, walk, diffResult, addedLines, rebuilt>>
    /\ UNCHANGED <<inputVars, fileVars, batchVars, now, nameVars, eventVars, reviewVars>>

ReconstructContentFromPatch ==
    /\ AtCall("reconstructContentFromPatch")
    /\ rebuilt' = IF IsString(file.patch) THEN Return(reconstructContentFromPatch(file.patch.v))
                  ELSE Throw
    /\ pc' = pc + 1
    /\ UNCHANGED <<pos, walk, diffResult, addedLines, addedContent>>
    /\ UNCHANGED <<inputVars, fileVars, batchVars, now, nameVars, eventVars, reviewVars>>

\* CodeMetricsTool.calculateMetrics on the added content of the file
CalculateMetrics ==
    /\ AtCall("calculateMetrics") /\ ~addedContent.threw
    /\ fileMetrics' = calculateMetrics(addedContent.value, file.filename)
    /\ pc' = pc + 1
    /\ UNCHANGED <<fileScan, authIssues>>
    /\ UNCHANGED <<inputVars, diffVars, batchVars, now, nameVars, eventVars, reviewVars>>

\* SecurityScannerTool.scanFile on the added content of the file
ScanFile ==
    /\ AtCall("scanFile") /\ ~addedContent.threw
    /\ fileScan' = scanFile(addedContent.value, file.filename)
    /\ pc' = pc + 1
    /\ UNCHANGED <<fileMetrics, authIssues>>
    /\ UNCHANGED <<inputVars, diffVars, batchVars, now, nameVars, eventVars, reviewVars>>

DetectAuthenticationIssues ==
    /\ AtCall("detectAuthenticationIssues")
    /\ authIssues' = IF IsString(file.patch)
                     THEN Return(detectAuthenticationIssues(file.patch.v, file.filename.v))
                     ELSE Throw
    /\ pc' = pc + 1
    /\ UNCHANGED <<fileScan, fileMetrics>>
    /\ UNCHANGED <<inputVars, diffVars, batchVars, now, nameVars, eventVars, reviewVars>>

AnalyzeFiles ==
    /\ AtCall("analyzeFiles")
    /\ analysis' = analyzeFiles(files)
    /\ pc' = pc + 1
    /\ UNCHANGED <<metrics, scan, summary, consolidated>>
    /\ UNCHANGED <<inputVars, diffVars, fileVars, now, nameVars, eventVars, reviewVars>>

CalculateBatchMetrics ==
    /\ AtCall("calculateBatchMetrics")
    /\ metrics' = calculateBatchMetrics(files)
    /\ pc' = pc + 1
    /\ UNCHANGED <<analysis, scan, summary, consolidated>>
    /\ UNCHANGED <<inputVars, diffVars, fileVars, now, nameVars, eventVars, reviewVars>>

ScanFiles ==
    /\ AtCall("scanFiles")
    /\ scan' = scanFiles(files)
    /\ pc' = pc + 1
    /\ UNCHANGED <<analysis, metrics, summary, consolidated>>
    /\ UNCHANGED <<inputVars, diffVars, fileVars, now, nameVars, eventVars, reviewVars>>

\* runSecurityAgent goes on to generateSecuritySummary unless scanFiles raised
GenerateSecuritySummary ==
    /\ AtCall("generateSecuritySummary")
    /\ summary' = IF scan.threw THEN Throw ELSE Return(generateSecuritySummary(scan.value))
    /\ pc' = pc + 1
    /\ UNCHANGED <<analysis, metrics, scan, consolidated>>
    /\ UNCHANGED <<inputVars, diffVars, fileVars, now, nameVars, eventVars, reviewVars>>

\* generateSummary: consolidateResults over the agent results of this run
ConsolidateResults ==
    /\ AtCall("consolidateResults")
    /\ consolidated' =
           Return(consolidateResults(<<CodeAnalysisAgentResult(analysis, metrics),
                                       SecurityAgentResult(scan, summary)>>, now))
    /\ pc' = pc + 1
    /\ UNCHANGED <<analysis, metrics, scan, summary>>
    /\ UNCHANGED <<inputVars, diffVars, fileVars, now, nameVars, eventVars, reviewVars>>

\* the pipeline is run a second time over the same file list
StartSecondRun ==
    /\ Finished /\ run = 1
    /\ first' = Outputs
    /\ run' = 2
    /\ pc' = 1
    /\ analysis' = NotRun /\ metrics' = NotRun /\ scan' = NotRun
    /\ summary' = NotRun /\ consolidated' = NotRun
    /\ UNCHANGED <<plan, file, files, diffVars, fileVars, now, nameVars, eventVars, reviewVars>>

\* time passes
Tick ==
    /\ now < MaxClock
    /\ now' = now + 1
    /\ UNCHANGED <<pc, inputVars, diffVars, fileVars, batchVars, nameVars, eventVars, reviewVars>>

\* FileAnalyzerTool.getFileType(filename)
GetFileType ==
    /\ AtCall("getFileType")
    /\ fileType' = IF IsString(file.filename) THEN Return(getFileType(file.filename.v))
                   ELSE Throw
    /\ pc' = pc + 1
    /\ UNCHANGED <<metricsLanguage, scanLanguage>>
    /\ UNCHANGED <<inputVars, diffVars, fileVars, batchVars, now, eventVars, reviewVars>>

\* CodeMetricsTool.detectLanguage(filename)
DetectLanguage ==
    /\ AtCall("detectLanguage")
    /\ metricsLanguage' = IF IsString(file.filename)
                          THEN Return(detectLanguage(file.filename.v)) ELSE Throw
    /\ pc' = pc + 1
    /\ UNCHANGED <<fileType, scanLanguage>>
    /\ UNCHANGED <<inputVars, diffVars, fileVars, batchVars, now, eventVars, reviewVars>>

\* SecurityScannerTool.getFileLanguage(filename)
GetFileLanguage ==
    /\ AtCall("getFileLanguage")
    /\ scanLanguage' = IF IsString(file.filename)
                       THEN Return(getFileLanguage(file.filename.v)) ELSE Throw
    /\ pc' = pc + 1
    /\ UNCHANGED <<fileType, metricsLanguage>>
    /\ UNCHANGED <<inputVars, diffVars, fileVars, batchVars, now, eventVars, reviewVars>>

\* run: if (!this.shouldProcessEvent()) return, the run ends without parsing
ShouldProcessEvent ==
    /\ AtCall("shouldProcessEvent")
    /\ accepted' = Return(shouldProcessEvent(eventName, payload))
    /\ pc' = IF shouldProcessEvent(eventName, payload) THEN pc + 1 ELSE Len(plan) + 1
    /\ UNCHANGED <<eventName, payload, prEvent>>
    /\ UNCHANGED <<inputVars, diffVars, fileVars, batchVars, now, nameVars, reviewVars>>

\* run: GitHubEventParser.parsePREvent(github.context.payload), which calls
\* parseGitHubPREvent
ParsePREvent ==
    /\ AtCall("parsePREvent")
    /\ prEvent' = parseGitHubPREvent(payload)
    /\ pc' = pc + 1
    /\ UNCHANGED <<eventName, payload, accepted>>
    /\ UNCHANGED <<inputVars, diffVars, fileVars, batchVars, now, nameVars, reviewVars>>

NextEvent == ShouldProcessEvent \/ ParsePREvent

\* the other variables of a review step
ReviewFrame == UNCHANGED <<inputVars, diffVars, fileVars, batchVars, now, nameVars, eventVars>>

\* reviewPR step 1: getPRInfo returns the files, or githubAPI.getPRInfo raises and
\* the catch block of reviewPR throws the error again
GetPRInfo ==
    /\ AtCall("getPRInfo")
    /\ \E fetched \in BOOLEAN :
           /\ prInfo' = IF fetched THEN Return(files) ELSE Throw
           /\ reviewResult' = IF fetched THEN reviewResult ELSE Throw
           /\ pc' = IF fetched THEN pc + 1 ELSE Len(plan) + 1
    /\ steps' = Append(steps, "getPRInfo")
    /\ UNCHANGED <<agentResults, summaryResult, posted>>
    /\ ReviewFrame

\* runSpecializedAgents, first try block
RunCodeAnalysisAgent ==
    /\ AtCall("runCodeAnalysisAgent")
    /\ \E generated \in AgentGenerations :
           agentResults' = PushAgentResult(agentResults,
                                           runCodeAnalysisAgent(prInfo.value, generated),
                                           "code-analysis")
    /\ steps' = Append(steps, "runCodeAnalysisAgent")
    /\ pc' = pc + 1
    /\ UNCHANGED <<prInfo, summaryResult, posted, reviewResult>>
    /\ ReviewFrame

\* runSpecializedAgents, second try block
RunSecurityAgent ==
    /\ AtCall("runSecurityAgent")
    /\ \E generated \in AgentGenerations :
           agentResults' = PushAgentResult(agentResults,
                                           runSecurityAgent(prInfo.value, generated),
                                           "security")
    /\ steps' = Append(steps, "runSecurityAgent")
    /\ pc' = pc + 1
    /\ UNCHANGED <<prInfo, summaryResult, posted, reviewResult>>
    /\ ReviewFrame

\* runSpecializedAgents, third try block
RunStyleAgent ==
    /\ AtCall("runStyleAgent")
    /\ \E generated \in AgentGenerations :
           agentResults' = PushAgentResult(agentResults,
                                           runStyleAgent(prInfo.value, generated), "style")
    /\ steps' = Append(steps, "runStyleAgent")
    /\ pc' = pc + 1
    /\ UNCHANGED <<prInfo, summaryResult, posted, reviewResult>>
    /\ ReviewFrame

\* reviewPR step 3: generateSummary; its exception leaves reviewPR
GenerateSummary ==
    /\ AtCall("generateSummary")
    /\ \E generated \in SummaryGenerations :
           /\ summaryResult' = generateSummary(agentResults, generated)
           /\ reviewResult' = IF generated.threw THEN Throw ELSE reviewResult
           /\ pc' = IF generated.threw THEN Len(plan) + 1 ELSE pc + 1
    /\ steps' = Append(steps, "generateSummary")
    /\ UNCHANGED <<prInfo, agentResults, posted>>
    /\ ReviewFrame

\* reviewPR steps 4 and 5: the ReviewResult is built and posted, and returned
\* unless postReviewToGitHub raised
PostReviewToGitHub ==
    /\ AtCall("postReviewToGitHub")
    /\ \E created \in BOOLEAN :
           LET built == BuildReviewResult(agentResults, summaryResult.value)
               sent == postReviewToGitHub(posted, built, created)
           IN  /\ posted' = IF sent.threw THEN posted ELSE sent.value
               /\ reviewResult' = IF sent.threw THEN Throw ELSE Return(built)
    /\ steps' = Append(steps, "postReviewToGitHub")
    /\ pc' = pc + 1
    /\ UNCHANGED <<prInfo, agentResults, summaryResult>>
    /\ ReviewFrame

NextReview ==
    \/ GetPRInfo \/ RunCodeAnalysisAgent \/ RunSecurityAgent \/ RunStyleAgent
    \/ GenerateSummary \/ PostReviewToGitHub

NextDiff ==
    \/ AnalyzeDiffLine \/ AnalyzeDiffReturn \/ ExtractAddedLines \/ ExtractAddedContent
    \/ ReconstructContentFromPatch

NextFile == ExtractAddedContent \/ CalculateMetrics \/ ScanFile \/ DetectAuthenticationIssues

Next ==
    \/ AnalyzeFiles \/ CalculateBatchMetrics \/ ScanFiles \/ GenerateSecuritySummary
    \/ ConsolidateResults \/ StartSecondRun \/ Tick

\* one run of the batch tools
NextRun ==
    \/ AnalyzeFiles \/ CalculateBatchMetrics \/ ScanFiles \/ GenerateSecuritySummary
    \/ ConsolidateResults

NextName == GetFileType \/ DetectLanguage \/ GetFileLanguage

SpecName == InitName /\ [][NextName]_vars
SpecEvent == InitEvent /\ [][NextEvent]_vars
SpecReview == InitReview /\ [][NextReview]_vars
SpecRun == Init /\ [][NextRun]_vars
SpecDiff == InitDiff /\ [][NextDiff]_vars
SpecFile == InitFile /\ [][NextFile]_vars
Spec == Init /\ [][Next]_vars

(***************************************************************************)
(* Properties                                                              *)
(***************************************************************************)
\* C1: for every patch string (empty, without a header, with a garbled header or
\* well formed) no turn of analyzeDiff raises, and analyzeDiff,
\* reconstructContentFromPatch and the two added-line extractors each end with a
\* result: the lines analyzeDiff returns are those the walk collected.
C1_DiffParsingNeverRaises ==
    /\ ~walk.threw
    /\ pos <= Len(PatchLines) + 1
    /\ Done("analyzeDiff") =>
           /\ ~diffResult.threw
           /\ pos = Len(PatchLines) + 1
           /\ diffResult.value.totalChanges
                  = CountLines(file.patch.v, IsAddedLine) + CountLines(file.patch.v, IsRemovedLine)
    /\ Done("extractAddedLines") =>
           ~addedLines.threw /\ Len(addedLines.value) = CountLines(file.patch.v, IsAddedLine)
    /\ Done("extractAddedContent") => ~addedContent.threw
    /\ Done("reconstructContentFromPatch") => ~rebuilt.threw

\* a patch whose second hunk header is garbled has been parsed to the end
C1_GarbledPatchParsed ==
    /\ Finished
    /\ file.patch.v = "@@ -5,2 +5,3 @@\n+a\n@@ garbled\n+a"
    /\ diffResult.value.addedLines = <<"a", "a">>
    /\ walk.currentLine = 7
    /\ addedLines.value = <<"a", "a">>
    /\ addedContent.value = "a\na"
    /\ rebuilt.value = "a\na"

\* the lines of the patch of file k, none when the patch is not a string
PatchLinesOf(k) == IF IsString(files[k].patch) THEN SplitLines(files[k].patch.v) ELSE <<>>

\* file k is named name and one of its added lines satisfies Gives
AddedLineOf(k, name, Gives(_)) ==
    /\ files[k].filename = Str(name)
    /\ \E n \in 1..Len(PatchLinesOf(k)) :
           IsAddedLine(PatchLinesOf(k)[n]) /\ Gives(Substring1(PatchLinesOf(k)[n]))

\* the rule of the finding matches the text, and the evidence is the text
RuleGives(issue, text) ==
    /\ Trim(text) = issue.evidence
    /\ \E r \in 1..Len(SECURITY_RULES) :
           SECURITY_RULES[r].id = issue.ruleId /\ PatternTest(SECURITY_RULES[r], text)

\* the text has what the message of the analyzer issue reports
MessageGives(issue, text) ==
    CASE issue.message = "console.log" -> Includes(Trim(text), "console.log")
      [] issue.message = "any" -> Includes(Trim(text), "any")
      [] issue.message = "long-line" -> Len(Trim(text)) > 120
      [] OTHER -> FALSE

\* every finding of scanFiles comes from an added line of a file of that name
ScanFindingsFromAddedLines ==
    Done("scanFiles") /\ ~scan.threw =>
        \A i \in 1..Len(scan.value) : \A j \in 1..Len(scan.value[i].issues) :
            \E k \in 1..Len(files) :
                AddedLineOf(k, scan.value[i].filename,
                            LAMBDA text : RuleGives(scan.value[i].issues[j], text))

\* every rule-based issue of analyzeFiles comes from an added line of a file of that name
AnalyzerIssuesFromAddedLines ==
    Done("analyzeFiles") /\ ~analysis.threw =>
        \A i \in 1..Len(analysis.value) : \A j \in 1..Len(analysis.value[i].issues) :
            \/ analysis.value[i].issues[j].message = "analysis-error"
            \/ \E k \in 1..Len(files) :
                   AddedLineOf(k, analysis.value[i].filename,
                               LAMBDA text : MessageGives(analysis.value[i].issues[j], text))

\* C2: every finding reported for a file, a security finding of scanFiles or a
\* rule-based issue of analyzeFiles, comes from the text of an added line of that
\* file's patch, never from a removed line, a context line or a header.
C2_FindingsFromAddedLines == ScanFindingsFromAddedLines /\ AnalyzerIssuesFromAddedLines

\* analyzeFiles reported console.log for a file none of whose added lines has it:
\* the text is on a context line of the patch
C2_ContextLineReported ==
    /\ Done("analyzeFiles") /\ ~analysis.threw
    /\ Len(files) = 1 /\ files[1].filename = Str("src/config.ts")
    /\ Len(analysis.value) = 1
    /\ \E j \in 1..Len(analysis.value[1].issues) :
           analysis.value[1].issues[j].message = "console.log"
    /\ \A n \in 1..Len(PatchLinesOf(1)) :
           IsAddedLine(PatchLinesOf(1)[n]) => ~Includes(PatchLinesOf(1)[n], "console.log")

\* the number of entries of issues with the severity, counted entry by entry
SeverityCount(issues, severity) ==
    Cardinality({ j \in 1..Len(issues) : issues[j].severity = severity })

\* C3: in every SecurityScanResult scanFile returns, bySeverity.critical + high +
\* medium + low equals totalIssues, which equals the number of entries of issues.
C3_SeverityCountsSumToTotal ==
    Done("scanFile") /\ ~fileScan.threw =>
        /\ fileScan.value.bySeverity.critical + fileScan.value.bySeverity.high
           + fileScan.value.bySeverity.medium + fileScan.value.bySeverity.low
               = fileScan.value.totalIssues
        /\ fileScan.value.totalIssues = Len(fileScan.value.issues)

\* scanFile has returned findings of three severities for one file
C3_MixedSeveritiesCounted ==
    /\ Done("scanFile")
    /\ fileScan.value.totalIssues = 6
    /\ fileScan.value.bySeverity = [critical |-> 3, high |-> 1, medium |-> 2, low |-> 0]

\* C4: in every SecurityScanResult riskScore equals min(100, 25 critical + 10 high +
\* 5 medium + 1 low) over the findings of that file, so it lies between 0 and 100
\* for any number of findings.
C4_RiskScoreWeightedAndCapped ==
    Done("scanFile") /\ ~fileScan.threw =>
        /\ fileScan.value.riskScore
               = Min(100, 25 * SeverityCount(fileScan.value.issues, "critical")
                          + 10 * SeverityCount(fileScan.value.issues, "high")
                          + 5 * SeverityCount(fileScan.value.issues, "medium")
                          + 1 * SeverityCount(fileScan.value.issues, "low"))
        /\ fileScan.value.riskScore \in 0..100

\* the findings of a file weigh more than 100 and its riskScore is 100
C4_ScoreCappedAtHundred ==
    /\ Done("scanFile")
    /\ SeverityCount(fileScan.value.issues, "critical") = 6
    /\ fileScan.value.riskScore = 100

\* a number between 0 and 100 that is neither NaN nor infinite
InPercentRange(a) == IsFinite(a) /\ a.v >= 0 /\ a.v <= 100 * 1000

\* C5: for every CodeMetrics calculateMetrics returns, on any content including
\* the empty string, qualityScore and maintainabilityIndex lie between 0 and 100
\* and neither is NaN or infinite.
C5_ScoresFiniteAndBounded ==
    Done("calculateMetrics") /\ ~fileMetrics.threw =>
        /\ InPercentRange(fileMetrics.value.qualityScore)
        /\ InPercentRange(fileMetrics.value.maintainabilityIndex)

\* calculateMetrics has returned for the empty string
C5_EmptyContentMeasured ==
    /\ Done("calculateMetrics")
    /\ addedContent.value = ""
    /\ fileMetrics.value.linesOfCode = 1
    /\ fileMetrics.value.maintainabilityIndex = Int2F(100)
    /\ fileMetrics.value.qualityScore = Int2F(100)

\* the rules of the catalog for hardcoded passwords, keys, secrets and tokens
SecretRuleIds == {"hardcoded-password-1", "hardcoded-key-1"}

\* the text shows none of the secret values of the inputs
HidesSecrets(text) == \A secret \in SecretValues : ~Includes(text, secret)

\* C6: a finding never exposes the raw secret: when a hardcoded password, key,
\* secret or token pattern matches an added line, the literal value does not appear
\* in the evidence or the code snippet of any finding emitted for that line.
C6_FindingsHideSecrets ==
    /\ Done("scanFile") /\ ~fileScan.threw =>
           \A j \in 1..Len(fileScan.value.issues) :
               (\E h \in 1..Len(fileScan.value.issues) :
                    /\ fileScan.value.issues[h].line = fileScan.value.issues[j].line
                    /\ fileScan.value.issues[h].ruleId \in SecretRuleIds)
               => HidesSecrets(fileScan.value.issues[j].evidence)
    /\ Done("detectAuthenticationIssues") /\ ~authIssues.threw =>
           \A j \in 1..Len(authIssues.value) :
               (\E h \in 1..Len(authIssues.value) :
                    /\ authIssues.value[h].line = authIssues.value[j].line
                    /\ authIssues.value[h].id = "auth-hardcoded")
               => HidesSecrets(authIssues.value[j].codeSnippet)

\* scanFile reported a hardcoded password and the evidence shows the password
C6_EvidenceShowsPassword ==
    /\ Done("scanFile") /\ ~fileScan.threw
    /\ \E j \in 1..Len(fileScan.value.issues) :
           /\ fileScan.value.issues[j].ruleId \in SecretRuleIds
           /\ Includes(fileScan.value.issues[j].evidence, "abc12345")

\* detectAuthenticationIssues alone: the code snippets of a line with a secret
DetectedSnippetsHideSecrets ==
    Done("detectAuthenticationIssues") /\ ~authIssues.threw =>
        \A j \in 1..Len(authIssues.value) :
            authIssues.value[j].id = "auth-hardcoded"
            => HidesSecrets(authIssues.value[j].codeSnippet)

\* C7: across the lines of any patch, whatever the number and order of its hunk
\* headers, the new-file line number of successive added and context lines is
\* 1-based and never decreases.
C7_LineNumbersOneBasedNeverDecrease ==
    \A k \in 1..Len(walk.numbering) :
        /\ walk.numbering[k].n >= 1
        /\ k > 1 => walk.numbering[k - 1].n <= walk.numbering[k].n

\* a hunk that starts at line 1 follows a hunk that starts at line 5: the added
\* line of the second is numbered below the added line of the first
C7_SecondHunkNumberedBelowFirst ==
    /\ Done("analyzeDiff")
    /\ file.patch.v = "@@ -5,2 +5,3 @@\n+a\n@@ -1 +1 @@ function f() {\n+a"
    /\ walk.numbering = <<[kind |-> "added", n |-> 5], [kind |-> "added", n |-> 1]>>

\* the elements of a sequence
Range(seq) == { seq[k] : k \in 1..Len(seq) }

\* the batch call returned, with every entry the call returns for file k alone
KeepsOthers(out, Alone(_)) ==
    /\ ~out.threw
    /\ \A k \in 1..Len(files) :
           ~Alone(<<files[k]>>).threw => Range(Alone(<<files[k]>>).value) \subseteq Range(out.value)

\* C8: when the analysis of one file of a batch raises, the batch operation (the
\* metrics batch, the file-analysis batch, the security scan batch) still completes
\* and returns the results of every other file: one bad file never aborts the batch.
C8_BadFileNeverAbortsBatch ==
    /\ Done("analyzeFiles") => KeepsOthers(analysis, analyzeFiles)
    /\ Done("calculateBatchMetrics") => KeepsOthers(metrics, calculateBatchMetrics)
    /\ Done("scanFiles") => KeepsOthers(scan, scanFiles)

\* scanFiles raised on a batch whose first file has findings of its own
C8_ScanAbortedAfterGoodFile ==
    /\ Done("scanFiles") /\ scan.threw
    /\ Len(files) = 2
    /\ ~scanFiles(<<files[1]>>).threw /\ scanFiles(<<files[1]>>).value # <<>>
    /\ scanFiles(<<files[2]>>).threw

\* the try block of analyzeFiles raises for file k
AnalysisRaises(k) ==
    /\ ~Falsy(files[k].patch) /\ ~IsString(files[k].patch)
    /\ IsString(files[k].filename)
    /\ getFileType(files[k].filename.v) \in {"typescript", "javascript"}

\* the try block of calculateBatchMetrics raises for file k
MetricsRaise(k) ==
    /\ IsString(files[k].patch)
    /\ Len(Trim(extractAddedContent(files[k].patch.v))) > 0
    /\ calculateMetrics(extractAddedContent(files[k].patch.v), files[k].filename).threw

\* the files of the batch for which calculateBatchMetrics calls calculateMetrics
MetricsAttempted ==
    { k \in 1..Len(files) :
        IsString(files[k].patch) /\ Len(Trim(extractAddedContent(files[k].patch.v))) > 0 }

\* the entry stands for a failed analysis: one finding, the synthetic one, not an error
IsAnalysisErrorEntry(entry) ==
    /\ Len(entry.issues) = 1
    /\ entry.issues[1].message = "analysis-error"
    /\ entry.issues[1].type \in {"info", "warning"}

\* C9: a file whose analysis raised is in the output of the batch with exactly one
\* synthetic low-severity "analysis error" finding; it is not silently dropped.
C9_FailedFileReportedOnce ==
    /\ Done("analyzeFiles") /\ ~analysis.threw =>
           \A k \in 1..Len(files) :
               AnalysisRaises(k) =>
                   \E i \in 1..Len(analysis.value) :
                       /\ analysis.value[i].filename = files[k].filename.v
                       /\ IsAnalysisErrorEntry(analysis.value[i])
    /\ Done("calculateBatchMetrics") /\ ~metrics.threw =>
           Len(metrics.value) = Cardinality(MetricsAttempted)

\* calculateBatchMetrics returned without any entry for a file whose metrics raised
C9_FailedMetricsDropped ==
    /\ Done("calculateBatchMetrics") /\ ~metrics.threw
    /\ Len(files) = 1 /\ MetricsRaise(1)
    /\ metrics.value = <<>>

\* C10: running the pipeline twice on the same file list gives the same output: no
\* timestamp, random value or state left by the first run changes the result of
\* the second.
C10_SecondRunSameOutput == run = 2 /\ Finished => Outputs = first

\* the outputs of the tools of the second run, as far as it has come, are those of
\* the first run
ToolOutputsRepeat ==
    run = 2 =>
        /\ Done("analyzeFiles") => analysis = first.analysis
        /\ Done("calculateBatchMetrics") => metrics = first.metrics
        /\ Done("scanFiles") => scan = first.scan
        /\ Done("generateSecuritySummary") => summary = first.summary

\* both runs are over and consolidateResults stamped them with different instants
C10_RunsStampedDifferently ==
    /\ run = 2 /\ Finished
    /\ files # <<>>
    /\ first.scan = scan /\ first.metrics = metrics /\ first.analysis = analysis
    /\ first.consolidated.value.timestamp # consolidated.value.timestamp

\* the number of scan results with a finding of the severity
FilesWithSeverity(results, severity) ==
    Cardinality({ i \in 1..Len(results) : SeverityCount(results[i].issues, severity) > 0 })

\* the number of findings of the severity in all the scan results
FindingsWithSeverity(results, severity) ==
    SumSeq(MapSeq(results, LAMBDA r : SeverityCount(r.issues, severity)))

\* C11: the batch riskLevel is critical if any file has a critical finding, else
\* high if more than two files have a high finding, else medium if there is a high
\* finding or more than five medium findings, else low.
C11_RiskLevelByFilesAndFindings ==
    Done("generateSecuritySummary") /\ ~summary.threw =>
        summary.value.riskLevel =
            IF FilesWithSeverity(scan.value, "critical") > 0 THEN "critical"
            ELSE IF FilesWithSeverity(scan.value, "high") > 2 THEN "high"
            ELSE IF FindingsWithSeverity(scan.value, "high") > 0
                    \/ FindingsWithSeverity(scan.value, "medium") > 5 THEN "medium"
            ELSE "low"

\* the summary of a single file with three high findings has riskLevel high
C11_OneFileRatedHigh ==
    /\ Done("generateSecuritySummary") /\ ~summary.threw
    /\ Len(scan.value) = 1
    /\ scan.value[1].bySeverity = [critical |-> 0, high |-> 3, medium |-> 0, low |-> 0]
    /\ summary.value.riskLevel = "high"

\* the findings of all scanned files, in the order of the scan
AllFindings == Flatten(MapSeq(scan.value, LAMBDA r : r.issues))

\* the place of a finding in the order of the summary: severity first, critical
\* above high above medium above low, then the priority of the category
FindingRank(issue) ==
    10 * (CASE issue.severity = "critical" -> 4 [] issue.severity = "high" -> 3
            [] issue.severity = "medium" -> 2 [] OTHER -> 1)
    + (CASE issue.category = "injection" -> 5
         [] issue.category = "sensitive-data" -> 4
         [] issue.category \in {"authentication", "authorization"} -> 3
         [] issue.category = "cryptography" -> 2
         [] issue.category \in {"configuration", "dependencies"} -> 1
         [] OTHER -> 0)

\* how many entries of the sequence are the finding
Copies(issues, issue) == Cardinality({ k \in 1..Len(issues) : issues[k] = issue })

MarkedAdded(line) == StartsWith(line, "+")

\* the names of the files of the batch that scanFiles can scan
ScannedNames == { files[k].filename.v : k \in { h \in 1..Len(files) : IsString(files[h].filename) } }

\* the lines of the files called name that Added takes for added lines and on
\* which the rule has to report the trimmed text: pairs of file and line index
RuleMatches(name, rule, text, Added(_)) ==
    { kn \in UNION { {k} \X (1..Len(PatchLinesOf(k))) : k \in 1..Len(files) } :
        /\ files[kn[1]].filename = Str(name)
        /\ Added(PatchLinesOf(kn[1])[kn[2]])
        /\ Trim(Substring1(PatchLinesOf(kn[1])[kn[2]])) = text
        /\ RuleApplies(rule, getFileLanguage(name))
        /\ PatternTest(rule, Substring1(PatchLinesOf(kn[1])[kn[2]])) }

\* the findings of the scan for the file name, the rule and the trimmed text
RuleFindings(name, rule, text) ==
    { ij \in UNION { {i} \X (1..Len(scan.value[i].issues)) : i \in 1..Len(scan.value) } :
        /\ scan.value[ij[1]].filename = name
        /\ scan.value[ij[1]].issues[ij[2]].ruleId = rule.id
        /\ scan.value[ij[1]].issues[ij[2]].evidence = text }

\* the trimmed texts of the lines of the batch that start with "+", and of the findings
ScanTexts ==
    UNION { { Trim(Substring1(PatchLinesOf(k)[n])) :
                n \in { m \in 1..Len(PatchLinesOf(k)) : MarkedAdded(PatchLinesOf(k)[m]) } } :
            k \in 1..Len(files) }
    \cup { AllFindings[j].evidence : j \in 1..Len(AllFindings) }

\* the scan has one finding for every added line and applicable rule that matches
\* it, and no other finding
OneFindingPerMatch(Added(_)) ==
    Done("scanFiles") /\ ~scan.threw =>
        \A name \in ScannedNames : \A r \in 1..Len(SECURITY_RULES) : \A text \in ScanTexts :
            Cardinality(RuleFindings(name, SECURITY_RULES[r], text))
                = Cardinality(RuleMatches(name, SECURITY_RULES[r], text, Added))

\* C13: for every added line L of the patch of a file and every rule R of the
\* catalog whose language allow-list is absent or has the language of the file,
\* the scan has exactly one finding for (L, R) when the pattern of R matches L and
\* none otherwise: no added line is skipped, a line matching k rules gives k
\* findings, and no rule fires outside its allow-list.
C13_OneFindingPerAddedLineAndRule == OneFindingPerMatch(MarkedAdded)

\* the same for the added lines that do not start with "+++"
OneFindingPerKeptLineAndRule == OneFindingPerMatch(IsAddedLine)

\* the added line "++i; eval(input)" matches the command injection rule and the
\* scan of its file has no finding for it
C13_AddedLineSkipped ==
    /\ Done("scanFiles") /\ ~scan.threw
    /\ Len(files) = 1 /\ files[1].filename = Str("src/risky.ts")
    /\ \E n \in 1..Len(PatchLinesOf(1)) : PatchLinesOf(1)[n] = "+++i; eval(input)"
    /\ \E r \in 1..Len(SECURITY_RULES) :
           /\ SECURITY_RULES[r].id = "command-injection-1"
           /\ PatternTest(SECURITY_RULES[r], "++i; eval(input)")
    /\ Len(scan.value) = 1
    /\ \A j \in 1..Len(scan.value[1].issues) : scan.value[1].issues[j].evidence # "++i; eval(input)"

\* the line is a hunk header the header pattern matches
IsHunkHeader(line) == StartsWith(line, "@@") /\ RxMatch(HunkHeaderPattern, line, FALSE).matched

\* the line is one of the new file: an added line or a context line
InNewFile(line) == IsAddedLine(line) \/ StartsWith(line, " ")

\* the new-file line number of line n of a patch, walking the hunk headers: the
\* start the last header before the line gives (1 without a header) plus the added
\* and context lines between that header and the line
NewFileLine(lines, n) ==
    LET headers == { h \in 1..(n - 1) : IsHunkHeader(lines[h]) }
        last == IF headers = {} THEN 0 ELSE CHOOSE h \in headers : \A g \in headers : g <= h
        start == IF last = 0 THEN 1
                 ELSE ParseInt(RxMatch(HunkHeaderPattern, lines[last], FALSE).caps[2])
    IN  start + Cardinality({ m \in (last + 1)..(n - 1) : InNewFile(lines[m]) })

\* C14: the line field of each finding is the line number of the added line that
\* matched: the 1-based new-file line number of that line, as the hunk headers of
\* the patch give it.
C14_FindingLineIsNewFileLine ==
    Done("scanFiles") /\ ~scan.threw =>
        \A i \in 1..Len(scan.value) : \A j \in 1..Len(scan.value[i].issues) :
            \E k \in 1..Len(files) : \E n \in 1..Len(PatchLinesOf(k)) :
                /\ files[k].filename = Str(scan.value[i].filename)
                /\ IsAddedLine(PatchLinesOf(k)[n])
                /\ RuleGives(scan.value[i].issues[j], Substring1(PatchLinesOf(k)[n]))
                /\ scan.value[i].issues[j].line = NewFileLine(PatchLinesOf(k), n)

\* the added line on line 8 of the new file has its findings on line 1
C14_FindingNumberedInAddedContent ==
    /\ Done("scanFiles") /\ ~scan.threw
    /\ Len(files) = 1 /\ files[1].filename = Str("src/risky.ts")
    /\ IsAddedLine(PatchLinesOf(1)[3]) /\ NewFileLine(PatchLinesOf(1), 3) = 8
    /\ Len(scan.value) = 1 /\ Len(scan.value[1].issues) = 3
    /\ \A j \in 1..3 : scan.value[1].issues[j].line = 1

\* C15: when a patch has no hunk header, or its hunk header is garbled, numbering
\* starts at 1: the first added or context line is numbered 1, and parsing goes on
\* over the rest of the patch.  The number of a line is the value of currentLine
\* when lines.forEach reaches it, as after a hunk header that starts at c the first
\* line is numbered c.
C15_NumberingStartsAtOne ==
    /\ ~walk.threw
    /\ (/\ Len(walk.numbering) = 1 /\ pos > 1
        /\ InNewFile(PatchLines[pos - 1])
        /\ \A m \in 1..(pos - 2) :
               ~IsHunkHeader(PatchLines[m]) /\ ~InNewFile(PatchLines[m]))
       => walk.numbering[1].n = 1

\* the added line behind a garbled header was numbered 0 and the patch was parsed
\* to its end
C15_FirstLineNumberedZero ==
    /\ Done("analyzeDiff") /\ ~diffResult.threw
    /\ file.patch.v = "@@ garbled\n+a\n c"
    /\ walk.numbering = <<[kind |-> "added", n |-> 0], [kind |-> "context", n |-> 1]>>
    /\ diffResult.value.addedLines = <<"a">>

\* the language the spec gives a filename under an extension table: the tag of the
\* extension, whatever its letter case, and "unknown" for a name without an
\* extension or with an extension the table does not list
TableLanguage(table, name) ==
    IF Includes(name, ".") /\ ToLowerCase(LastSegment(name, "")) \in DOMAIN table
    THEN table[ToLowerCase(LastSegment(name, ""))]
    ELSE "unknown"

\* the language tags of a table
TableTags(table) == { table[k] : k \in DOMAIN table } \cup {"unknown"}

\* the classifier returned, and returned the language tag of the filename
ClassifiedBy(result, table) ==
    /\ ~result.threw
    /\ result.value \in TableTags(table)
    /\ result.value = TableLanguage(table, file.filename.v)

\* C16: language classification is a total function of the filename: for a known
\* extension it returns the tag of the table whatever the letter case, for every
\* other filename (no extension, unlisted extension, any string) it returns
\* "unknown"; it never fails and never returns anything that is not a language tag.
C16_LanguageClassificationTotal ==
    /\ Done("getFileType") => ClassifiedBy(fileType, AnalyzerLanguageMap)
    /\ Done("detectLanguage") => ClassifiedBy(metricsLanguage, MetricsLanguageMap)
    /\ Done("getFileLanguage") => ClassifiedBy(scanLanguage, ScannerLanguageMap)

\* the three classifiers returned an object of Object.prototype for a filename
\* that ends in ".constructor"
C16_ObjectReturnedForLanguage ==
    /\ Finished /\ plan = NamePlan
    /\ file.filename.v = "a.constructor"
    /\ fileType.value = NotATag /\ metricsLanguage.value = NotATag
    /\ scanLanguage.value = NotATag

\* the classifiers on the filenames whose ending is not a key that an object
\* literal inherits and that have a dot
KnownEndingsClassified ==
    (Includes(file.filename.v, ".")
     /\ ToLowerCase(LastSegment(file.filename.v, "")) \notin InheritedKeys)
    => C16_LanguageClassificationTotal

\* the call is the last one made: its result has just been returned
JustDone(call) == pc > 1 /\ pc <= Len(plan) + 1 /\ plan[pc - 1] = call

\* the batch call returned the results of its files, each as the call on that
\* file alone returns it, in the order of the files; with the files in the
\* opposite order the results are the same
SameAsAlone(out, Alone(_)) ==
    ~out.threw =>
        /\ out.value = Flatten([k \in 1..Len(files) |-> Alone(<<files[k]>>).value])
        /\ Range(Alone([k \in 1..Len(files) |-> files[Len(files) + 1 - k]]).value)
               = Range(out.value)

SqlRuleIds == {"sql-injection-1", "sql-injection-2"}

\* C18: an added line that builds a SQL statement by concatenating a string literal
\* with a variable, as const q = "SELECT * FROM t WHERE id=" + id; does, yields one
\* critical SQL injection finding on that line.
C18_ConcatenatedSqlReported ==
    Done("scanFile") /\ ~fileScan.threw /\ addedContent.value = ConcatenatedSqlLine =>
        Cardinality({ j \in 1..Len(fileScan.value.issues) :
                        /\ fileScan.value.issues[j].ruleId \in SqlRuleIds
                        /\ fileScan.value.issues[j].severity = "critical"
                        /\ fileScan.value.issues[j].line = 1 }) = 1

\* scanFile returned no finding at all for the line
C18_ConcatenatedSqlUnreported ==
    /\ Done("scanFile") /\ ~fileScan.threw
    /\ addedContent.value = ConcatenatedSqlLine
    /\ fileScan.value.totalIssues = 0 /\ fileScan.value.issues = <<>>

\* the words that stand for a branch
BranchingKeywords == {"if", "else", "for", "while", "do", "switch", "case", "catch"}

\* the patch adds three lines and nothing else, each under 10 characters and
\* without a branching keyword
AddsThreeShortLines(patch) ==
    /\ Len(SplitLines(patch)) = 3
    /\ \A n \in 1..3 :
           /\ IsAddedLine(SplitLines(patch)[n])
           /\ Len(Substring1(SplitLines(patch)[n])) < 10
           /\ \A word \in BranchingKeywords : ~Includes(SplitLines(patch)[n], word)

\* C19: for a patch that adds three short lines (under 10 characters) without
\* branching keywords the metrics have cyclomaticComplexity 1, no problematic
\* function and qualityScore 100, and the security riskScore is 0.
C19_ThreeShortLinesScored ==
    /\ Done("calculateMetrics") /\ ~fileMetrics.threw /\ AddsThreeShortLines(file.patch.v) =>
           /\ fileMetrics.value.cyclomaticComplexity = 1
           /\ fileMetrics.value.problematicFunctions = <<>>
           /\ fileMetrics.value.qualityScore = Int2F(100)
    /\ Done("scanFile") /\ ~fileScan.threw /\ AddsThreeShortLines(file.patch.v) =>
           fileScan.value.riskScore = 0

\* the metrics of the three short lines have cyclomaticComplexity 0
C19_NoFunctionNoComplexity ==
    /\ Finished /\ plan = FilePlan
    /\ file.patch.v = ThreeShortLinesPatch
    /\ fileMetrics.value.functionCount = 0
    /\ fileMetrics.value.cyclomaticComplexity = 0
    /\ fileMetrics.value.problematicFunctions = <<>>
    /\ fileMetrics.value.qualityScore = Int2F(100)
    /\ fileScan.value.riskScore = 0

\* the function is reported with the issue
Flagged(problems, name, issue) ==
    \E k \in 1..Len(problems) : problems[k].name = name /\ problems[k].issue = issue

\* C20: a function whose body has 6 nested if blocks is flagged both "too-complex"
\* (complexity above 10) and "deeply-nested" (nestingDepth above 4), the two
\* findings being emitted independently for the same function.
C20_NestedIfsFlaggedTwice ==
    (/\ Done("calculateMetrics") /\ ~fileMetrics.threw
     /\ file.patch.v = NestedIfsPatch /\ file.filename = Str("src/config.ts"))
    => /\ Flagged(fileMetrics.value.problematicFunctions, "f", "too-complex")
       /\ Flagged(fileMetrics.value.problematicFunctions, "f", "deeply-nested")

\* the function with six nested if blocks has complexity 7 and is reported as
\* deeply nested only
C20_NestedIfsFlaggedOnce ==
    /\ Done("calculateMetrics") /\ ~fileMetrics.threw
    /\ file.patch.v = NestedIfsPatch /\ file.filename = Str("src/config.ts")
    /\ fileMetrics.value.functionCount = 1
    /\ fileMetrics.value.cyclomaticComplexity = 7
    /\ fileMetrics.value.problematicFunctions
           = <<[name |-> "f", line |-> 1, issue |-> "deeply-nested", value |-> 7]>>

\* the entries of a batch result that belong to the file
EntriesOf(results, name) == SelectSeq(results, LAMBDA entry : entry.filename = name)

\* C21: for a file whose patch is the empty string the pipeline returns, without
\* raising, a CodeMetrics with zero lines and qualityScore 100, and zero findings.
C21_EmptyPatchMeasured ==
    (Len(files) = 1 /\ files[1].patch = Str("") /\ IsString(files[1].filename)) =>
        /\ Done("calculateBatchMetrics") =>
               /\ ~metrics.threw
               /\ Len(EntriesOf(metrics.value, files[1].filename.v)) = 1
               /\ EntriesOf(metrics.value, files[1].filename.v)[1].linesOfCode = 0
               /\ EntriesOf(metrics.value, files[1].filename.v)[1].qualityScore = Int2F(100)
        /\ Done("scanFiles") => ~scan.threw /\ scan.value = <<>>

\* the metrics batch returned no entry for the file with the empty patch, and the
\* scan no finding
C21_EmptyPatchSkipped ==
    /\ Len(files) = 1 /\ files[1] = FileChange(Str("src/empty.ts"), Str(""))
    /\ Done("calculateBatchMetrics") /\ Done("scanFiles")
    /\ metrics = Return(<<>>)
    /\ scan = Return(<<>>)
    /\ calculateMetrics("", files[1].filename).value.linesOfCode = 1

\* the new-file counter after a patch line, as the walk is described: a hunk header
\* sets it from its '+c' field, a removed line (first character "-") and a "no
\* trailing newline" marker (first character "\") leave it as it is, and every
\* other line, added or context, advances it by one
CounterAfter(currentLine, line) ==
    IF StartsWith(line, "@@") THEN
        IF RxTest(HunkHeaderPattern, line, FALSE)
        THEN ParseInt(RxMatch(HunkHeaderPattern, line, FALSE).caps[2])
        ELSE currentLine
    ELSE IF StartsWith(line, "-") \/ StartsWith(line, "\\") THEN currentLine
    ELSE currentLine + 1

\* C23: while a patch is walked the new-file line counter is set from the '+c'
\* field of each hunk header and then advances by exactly one for each added line
\* and each context line and for nothing else: removed lines and "no trailing
\* newline" marker lines leave it unchanged.
C23_CounterAdvancesOnNewFileLines ==
    [][AnalyzeDiffLine => walk'.currentLine = CounterAfter(walk.currentLine, PatchLines[pos])]_vars

\* a removed line whose text begins with "--" has advanced the counter from 5 to 6
C23_RemovedLineAdvancedCounter ==
    /\ file.patch = Str("@@ -5,2 +5,3 @@\n---i;")
    /\ AtCall("analyzeDiff") /\ pos = 3
    /\ walk.currentLine = 6 /\ walk.removedLines = <<>>

\* the counter follows the header, the added and the context lines on every line
\* the walk itself takes for a header, an added, a removed or a marker line
CounterFollowsRecognisedLines ==
    [][(AnalyzeDiffLine /\ ~StartsWith(PatchLines[pos], "---"))
          => walk'.currentLine = CounterAfter(walk.currentLine, PatchLines[pos])]_vars

\* the least number of a set of numbers
Least(S) == CHOOSE m \in S : \A n \in S : m <= n

\* the line is a function signature for analyzeJavaScriptFunctions
IsSignatureLine(line) ==
    /\ RxTest(FunctionPattern, Trim(line), FALSE)
    /\ (Includes(Trim(line), "function") \/ Includes(Trim(line), "=>"))

\* the braces opened less the braces closed on the lines from..to
RECURSIVE NetBraces(_, _, _)
NetBraces(lines, from, to) ==
    IF from > to THEN 0
    ELSE CountChar(lines[to], "{") - CountChar(lines[to], "}") + NetBraces(lines, from, to - 1)

\* the lines on which the braces opened since the signature line k are all closed
BalancedAt(lines, k) ==
    { m \in k..Len(lines) :
        /\ NetBraces(lines, k, m) = 0
        /\ \E j \in k..m : CountChar(lines[j], "{") > 0 }

\* the signature line k is that of a function whose braces balance in the content
\* and that has no other signature up to its closing line
BalancesAlone(lines, k) ==
    /\ IsSignatureLine(lines[k])
    /\ BalancedAt(lines, k) # {}
    /\ \A j \in (k + 1)..Least(BalancedAt(lines, k)) : ~IsSignatureLine(lines[j])

\* the deepest brace depth from the signature line k to the line m
DeepestBetween(lines, k, m) == Max(0, MaxOf([j \in 1..(m - k + 1) |-> NetBraces(lines, k, k + j - 1)]))

\* the function opened on line k is listed once, from k to the line where its
\* braces are closed, with the deepest nesting reached between the two
RecordedOnce(functions, lines, k) ==
    /\ Cardinality({ n \in 1..Len(functions) : functions[n].line = k }) = 1
    /\ \A n \in 1..Len(functions) :
           functions[n].line = k =>
               /\ functions[n].endLine = Least(BalancedAt(lines, k))
               /\ functions[n].length = Least(BalancedAt(lines, k)) - k + 1
               /\ functions[n].nestingDepth = DeepestBetween(lines, k, Least(BalancedAt(lines, k)))

\* C24: a function context opened at a signature line closes exactly when the brace
\* depth returns to the depth at which it opened; the function is then recorded
\* once, with its line span and the maximum nesting depth reached, so every detected
\* function whose braces balance within the added content is in the function list.
C24_BalancedFunctionsRecorded ==
    (Done("calculateMetrics") /\ ~fileMetrics.threw /\ file.filename = Str("src/config.ts")) =>
        \A k \in 1..Len(SplitLines(addedContent.value)) :
            BalancesAlone(SplitLines(addedContent.value), k) =>
                RecordedOnce(analyzeJavaScriptFunctions(SplitLines(addedContent.value)),
                             SplitLines(addedContent.value), k)

\* the function written on one line is not in the function list
C24_OneLineFunctionMissing ==
    /\ Done("calculateMetrics") /\ ~fileMetrics.threw /\ file.filename = Str("src/config.ts")
    /\ file.patch.v = OneLineFunctionPatch
    /\ BalancesAlone(SplitLines(addedContent.value), 1)
    /\ analyzeJavaScriptFunctions(SplitLines(addedContent.value)) = <<>>
    /\ fileMetrics.value.functionCount = 0

\* a function that opens and closes on lines of their own is recorded as described
MultiLineFunctionsRecorded ==
    (Done("calculateMetrics") /\ ~fileMetrics.threw /\ file.filename = Str("src/config.ts")) =>
        \A k \in 1..Len(SplitLines(addedContent.value)) :
            (/\ BalancesAlone(SplitLines(addedContent.value), k)
             /\ Least(BalancedAt(SplitLines(addedContent.value), k)) > k
             /\ CountChar(SplitLines(addedContent.value)[Least(BalancedAt(SplitLines(addedContent.value), k))], "{") = 0)
            => RecordedOnce(analyzeJavaScriptFunctions(SplitLines(addedContent.value)),
                            SplitLines(addedContent.value), k)

\* line j is a signature inside the function opened on line k, which is still open
\* there and whose own closing brace is in the content
OpenedInside(lines, k, j) ==
    /\ k < j
    /\ IsSignatureLine(lines[k]) /\ IsSignatureLine(lines[j])
    /\ \A m \in k..(j - 1) : NetBraces(lines, k, m) > 0
    /\ \E m \in j..Len(lines) : NetBraces(lines, k, m) = 0

\* the line of the closing brace of the function opened on line k
OwnClosingLine(lines, k) == Least({ m \in k..Len(lines) : NetBraces(lines, k, m) = 0 })

\* C25: only one function context is active at any point of the scan: when an inner
\* function signature appears while an outer function is open, the outer context is
\* closed prematurely; the outer function is still recorded, with a span that ends
\* early, rather than being kept open until its own closing brace.
C25_OuterFunctionRecordedEarly ==
    (Done("calculateMetrics") /\ ~fileMetrics.threw /\ file.filename = Str("src/config.ts")) =>
        \A k, j \in 1..Len(SplitLines(addedContent.value)) :
            OpenedInside(SplitLines(addedContent.value), k, j) =>
                \E n \in 1..Len(analyzeJavaScriptFunctions(SplitLines(addedContent.value))) :
                    /\ analyzeJavaScriptFunctions(SplitLines(addedContent.value))[n].line = k
                    /\ analyzeJavaScriptFunctions(SplitLines(addedContent.value))[n].endLine
                           < OwnClosingLine(SplitLines(addedContent.value), k)

\* of the two functions only the inner one is listed
C25_OuterFunctionDropped ==
    /\ Done("calculateMetrics") /\ ~fileMetrics.threw /\ file.filename = Str("src/config.ts")
    /\ file.patch.v = NestedFunctionPatch
    /\ OpenedInside(SplitLines(addedContent.value), 1, 2)
    /\ Len(analyzeJavaScriptFunctions(SplitLines(addedContent.value))) = 1
    /\ analyzeJavaScriptFunctions(SplitLines(addedContent.value))[1].name = "inner"
    /\ analyzeJavaScriptFunctions(SplitLines(addedContent.value))[1].line = 2
    /\ analyzeJavaScriptFunctions(SplitLines(addedContent.value))[1].endLine = 3
    /\ fileMetrics.value.functionCount = 1

\* the line has the keyword do, as a word of its own
DoKeywordOn(trimmed) ==
    \/ trimmed = "do" \/ StartsWith(trimmed, "do ") \/ StartsWith(trimmed, "do{")
    \/ Includes(trimmed, " do ") \/ Includes(trimmed, " do{")

\* the branching constructs on a line: one for each kind of keyword the line
\* contains, "else if" counting as the "if" it holds
ConstructsOn(trimmed) ==
    (IF Includes(trimmed, "if") THEN 1 ELSE 0)
    + (IF Includes(trimmed, "for") THEN 1 ELSE 0)
    + (IF Includes(trimmed, "while") THEN 1 ELSE 0)
    + (IF DoKeywordOn(trimmed) THEN 1 ELSE 0)
    + (IF Includes(trimmed, "switch") THEN 1 ELSE 0)
    + (IF Includes(trimmed, "catch") THEN 1 ELSE 0)

\* the sum over the lines 1..n of 1 + the brace depth at the line for each construct
RECURSIVE ConstructsWeighted(_, _)
ConstructsWeighted(lines, n) ==
    IF n = 0 THEN 0
    ELSE ConstructsWeighted(lines, n - 1)
         + ConstructsOn(Trim(lines[n])) * (1 + NetBraces(lines, 1, n))

\* C26: cognitiveComplexity is the sum, over every branching construct (if, else if,
\* for, while, do, switch, catch) in the added content, of 1 + nestingLevel, where
\* nestingLevel is the running brace depth at the line that contains the construct.
C26_CognitiveComplexityWeighsEveryConstruct ==
    (Done("calculateMetrics") /\ ~fileMetrics.threw) =>
        fileMetrics.value.cognitiveComplexity
            = ConstructsWeighted(SplitLines(addedContent.value),
                                 Len(SplitLines(addedContent.value)))

\* the do of a do ... while loop adds nothing: the loop counts 1, for its while
C26_DoNotCounted ==
    /\ Done("calculateMetrics") /\ ~fileMetrics.threw
    /\ file.patch.v = DoWhilePatch
    /\ fileMetrics.value.cognitiveComplexity = 1
    /\ ConstructsWeighted(SplitLines(addedContent.value), 2) = 3

\* with for and while counted together and do left out, the sum is the one computed
CognitiveComplexityWeighsCountedConstructs ==
    (Done("calculateMetrics") /\ ~fileMetrics.threw) =>
        \A lines \in {SplitLines(addedContent.value)} :
            (\A n \in 1..Len(lines) :
                 /\ ~DoKeywordOn(Trim(lines[n]))
                 /\ ~(Includes(lines[n], "for") /\ Includes(lines[n], "while")))
            => fileMetrics.value.cognitiveComplexity = ConstructsWeighted(lines, Len(lines))

\* the brace depth after each line of the content
RunningLevels(lines) == { NetBraces(lines, 1, n) : n \in 0..Len(lines) }

\* C30: for any added content, including fragments with more closing than opening
\* braces, the running nesting level of the cognitive-complexity scan never becomes
\* negative and cognitiveComplexity is never negative.
C30_NestingLevelNeverNegative ==
    (Done("calculateMetrics") /\ ~fileMetrics.threw) =>
        /\ \A n \in 0..Len(SplitLines(addedContent.value)) :
               CognitiveScan([nestingLevel |-> 0, complexity |-> 0],
                             SubSeq(SplitLines(addedContent.value), 1, n), 1).nestingLevel >= 0
        /\ fileMetrics.value.cognitiveComplexity >= 0

\* after two closing braces the level is -2 and the if is weighed 1 + (-2)
C30_NegativeCognitiveComplexity ==
    /\ Done("calculateMetrics") /\ ~fileMetrics.threw
    /\ file.patch.v = ClosingFragmentPatch
    /\ CognitiveScan([nestingLevel |-> 0, complexity |-> 0],
                     SplitLines(addedContent.value), 1).nestingLevel = -2
    /\ fileMetrics.value.cognitiveComplexity = -1

\* C29: every pull-request event the entrypoint accepts for processing
\* (shouldProcessEvent returns true, payload complete) is also accepted by the event
\* parser: the actions the filter lets through are among those parseGitHubPREvent and
\* GitHubPREventSchema accept, so an accepted event never fails in parsing.
C29_AcceptedEventsParse ==
    (Done("parsePREvent") /\ accepted = Return(TRUE) /\ PayloadComplete(payload)) =>
        /\ payload.action.v \in ValidActions
        /\ ~prEvent.threw /\ GitHubPREventSchema(prEvent.value)

\* a complete ready_for_review event passed the filter and the parser raised
C29_ReadyForReviewRejected ==
    /\ Done("parsePREvent")
    /\ eventName = "pull_request" /\ payload.action = Str("ready_for_review")
    /\ PayloadComplete(payload)
    /\ accepted = Return(TRUE)
    /\ prEvent.threw

\* the complete events of the three other actions are parsed into events of the schema
OpenedEventsParse ==
    (/\ Done("parsePREvent") /\ accepted = Return(TRUE) /\ PayloadComplete(payload)
     /\ payload.action.v \in ValidActions) =>
        ~prEvent.threw /\ GitHubPREventSchema(prEvent.value)

\* the names of the agent results, in order
AgentNames(results) == [k \in 1..Len(results) |-> results[k].agentName]

\* the times reviewPR has made the call
TimesCalled(call) == Cardinality({ k \in 1..Len(steps) : steps[k] = call })

SpecialisedAgents == <<"code-analysis", "security", "style">>

\* C22: every review result returned by reviewPR contains exactly three agent
\* results, in the order code-analysis, security, style: each specialised agent is
\* run exactly once, and an agent that throws is replaced by a result with
\* success = false and no comments without preventing the remaining agents from
\* running.
C22_ThreeAgentResultsInOrder ==
    /\ (Done("postReviewToGitHub") /\ ~reviewResult.threw) =>
           /\ AgentNames(reviewResult.value.agentResults) = SpecialisedAgents
           /\ TimesCalled("runCodeAnalysisAgent") = 1
           /\ TimesCalled("runSecurityAgent") = 1
           /\ TimesCalled("runStyleAgent") = 1
    /\ AgentNames(agentResults) = SubSeq(SpecialisedAgents, 1, Len(agentResults))
    /\ Len(agentResults)
           = TimesCalled("runCodeAnalysisAgent") + TimesCalled("runSecurityAgent")
             + TimesCalled("runStyleAgent")
    /\ \A k \in 1..Len(agentResults) :
           ~agentResults[k].success => agentResults[k].comments = <<>>
    /\ (Len(agentResults) >= 1 /\ calculateBatchMetrics(files).threw) =>
           ~agentResults[1].success
    /\ (Len(agentResults) >= 2 /\ scanFiles(files).threw) => ~agentResults[2].success

\* reviewPR returned three results of which the first two are those of agents
\* that raised and the third is the result of the style agent
C22_FailedAgentsReplaced ==
    /\ Done("postReviewToGitHub") /\ ~reviewResult.threw
    /\ scanFiles(files).threw
    /\ Len(reviewResult.value.agentResults) = 3
    /\ reviewResult.value.agentResults[1] = createErrorResult("code-analysis")
    /\ reviewResult.value.agentResults[2] = createErrorResult("security")
    /\ reviewResult.value.agentResults[3].success
    /\ reviewResult.value.agentResults[3].comments # <<>>

\* the agent results hold a comment of severity critical
HasCriticalComment(results) ==
    \E k \in 1..Len(AllComments(results)) : AllComments(results)[k].severity = "critical"

\* C27: a review is never submitted to GitHub with the event APPROVE when the agent
\* results of that review contain at least one comment of severity critical,
\* whatever the summary agent replied.
C27_NoApprovalWithCriticalComment ==
    \A k \in 1..Len(posted) :
        posted[k].event = "APPROVE" => ~HasCriticalComment(agentResults)

\* the summary agent replied approve and the review was created with APPROVE over a
\* critical comment
C27_ApprovedDespiteCritical ==
    /\ Done("postReviewToGitHub") /\ ~reviewResult.threw
    /\ Len(posted) = 1 /\ posted[1].event = "APPROVE"
    /\ reviewResult.value.summary.recommendation = "approve"
    /\ HasCriticalComment(reviewResult.value.agentResults)

\* without a json block in the reply of the summary agent no review with a critical
\* comment is approved
FallbackNeverApprovesCritical ==
    \A reply \in { r \in SummaryReplies : ~r.fenced } :
        HasCriticalComment(agentResults) =>
            ReviewEvent(mapRecommendation(parseSummaryResult(reply, agentResults).recommendation))
                # "APPROVE"

\* C28: within one reviewPR call the steps occur in the order fetch PR info, run the
\* three agents, generate the summary, post the review: the review is posted at
\* most once and only after all three agent results and the summary exist, and if
\* fetching the PR or generating the summary fails nothing is posted and the error
\* propagates to the caller.
C28_StepsInOrderPostedOnce ==
    /\ Len(steps) <= Len(ReviewPlan) /\ steps = SubSeq(ReviewPlan, 1, Len(steps))
    /\ Len(posted) <= 1
    /\ posted # <<>> =>
           /\ steps = ReviewPlan
           /\ Len(agentResults) = 3
           /\ ~prInfo.threw /\ ~summaryResult.threw
           /\ summaryResult.value.recommendation \in {"approve", "request_changes", "comment"}
    /\ (prInfo.threw \/ summaryResult.threw) =>
           /\ posted = <<>>
           /\ reviewResult = Throw
           /\ Finished
           /\ steps[Len(steps)] = IF prInfo.threw THEN "getPRInfo" ELSE "generateSummary"

\* the review was posted once, after the six steps
C28_PostedAfterSummary ==
    /\ Finished /\ ~reviewResult.threw
    /\ steps = ReviewPlan
    /\ Len(posted) = 1
    /\ Len(agentResults) = 3 /\ ~summaryResult.threw

\* the summary agent raised: nothing is posted and reviewPR raises
SummaryFailedNothingPosted ==
    /\ Finished /\ summaryResult.threw /\ Len(agentResults) = 3
    /\ posted = <<>> /\ reviewResult = Throw

====
